---- MODULE Spec2Model ----
(***************************************************************************)
(* Model of the media-operation dispatch of finalcut: the                  *)
(* /api/process-video handlers (buffered, multipart and streaming), the    *)
(* /api/transition-videos handler with its filter-graph builders, and the  *)
(* client tool functions that validate arguments before calling them.      *)
(* One request is followed from its arrival to its answer.                 *)
(***************************************************************************)
EXTENDS Integers, Sequences, FiniteSets, TLC

(***************************************************************************)
(* Bounds of the model.                                                    *)
(***************************************************************************)
MaxVideos == 3
MaxSpeedNum == 9
MaxSpeedDen == 4
PanDen == 2
MaxTempoIter == 6
MaxCalls == 3
MaxRounds == 2
MaxChains == 2
MaxSessions == 2
MaxTokens == 2
MaxTime == 5

(***************************************************************************)
(* Rational numbers n/d (d > 0, lowest terms) stand for the JavaScript     *)
(* numbers of speed, pan and gain values.                                  *)
(***************************************************************************)
Abs(i) == IF i < 0 THEN -i ELSE i

RECURSIVE GCD(_, _)
GCD(a, b) == IF b = 0 THEN a ELSE GCD(b, a % b)

Rat(n, d) ==
  LET g == GCD(Abs(n), d)
  IN  [n |-> n \div g, d |-> d \div g]

RLt(a, b) == a.n * b.d < b.n * a.d
RLe(a, b) == a.n * b.d <= b.n * a.d
RMul(a, b) == Rat(a.n * b.n, a.d * b.d)
RAdd(a, b) == Rat(a.n * b.d + b.n * a.d, a.d * b.d)
RSub(a, b) == Rat(a.n * b.d - b.n * a.d, a.d * b.d)

Zero == [n |-> 0, d |-> 1]
Half == [n |-> 1, d |-> 2]
One == [n |-> 1, d |-> 1]
Two == [n |-> 2, d |-> 1]

RECURSIVE RProd(_)
RProd(s) == IF s = << >> THEN One ELSE RMul(Head(s), RProd(Tail(s)))

(***************************************************************************)
(* JavaScript property access: a missing property is undefined.            *)
(***************************************************************************)
Has(args, f) == f \in DOMAIN args

\* x || dflt for a numeric property: undefined and 0 are falsy
OrDefault(args, f, dflt) == IF Has(args, f) /\ args[f] # 0 THEN args[f] ELSE dflt

\* s || dflt for a string property: undefined and '' are falsy
StrOrDefault(args, f, dflt) == IF Has(args, f) /\ args[f] # "" THEN args[f] ELSE dflt

\* x ?? dflt: only undefined (null) is replaced
Coalesce(args, f, dflt) == IF Has(args, f) THEN args[f] ELSE dflt

NoArgs == [none |-> TRUE]
Opt(f, S) == {[none |-> TRUE]} \cup {(f :> v) : v \in S}

\* all records made of one choice per optional field
Merge(A, B) == {IF a = NoArgs THEN b ELSE IF b = NoArgs THEN a ELSE a @@ b : a \in A, b \in B}

(***************************************************************************)
(* Transition filter graphs.  A filter is [ins, f, out]; a pad is          *)
(* [k, i]: "v"/"a" are the input streams [i:v]/[i:a], "silent" is          *)
(* [silent<i>], "vfade"/"afade" are [v<i>fade]/[a<i>fade], "V"/"A" are the *)
(* output labels [v]/[a].                                                  *)
(***************************************************************************)
Pad(k, i) == [k |-> k, i |-> i]
Filter(ins, f, out) == [ins |-> ins, f |-> f, out |-> out]
BuildError(msg) == [error |-> TRUE, message |-> msg, filters |-> << >>]
Built(fs) == [error |-> FALSE, message |-> "", filters |-> fs]

some(hasAudio) == \E i \in DOMAIN hasAudio : hasAudio[i]
every(hasAudio) == \A i \in DOMAIN hasAudio : hasAudio[i]

\* SilentSources without the test of hasAudio[i]: a silent pad for every index
RECURSIVE SilentSourcesForAll(_, _, _)
SilentSourcesForAll(i, numVideos, hasAudio) ==
  IF i >= numVideos THEN << >>
  ELSE << Filter(<< >>, "anullsrc", Pad("silent", i)) >>
       \o SilentSourcesForAll(i + 1, numVideos, hasAudio)

\* for (i = 0; i < numVideos; i++) if (!hasAudio[i]) filters.push(anullsrc...[silent i])
RECURSIVE SilentSources(_, _, _)
SilentSources(i, numVideos, hasAudio) ==
  IF i >= numVideos THEN << >>
  ELSE (IF ~hasAudio[i + 1]
          THEN << Filter(<< >>, "anullsrc", Pad("silent", i)) >>
          ELSE << >>)
       \o SilentSources(i + 1, numVideos, hasAudio)

VideoInputs(numVideos) == [j \in 1..numVideos |-> Pad("v", j - 1)]

\* audioInputs that takes [i:a] of every input
AudioInputsOfAll(numVideos, hasAudio) == [j \in 1..numVideos |-> Pad("a", j - 1)]

AudioInputs(numVideos, hasAudio) ==
  [j \in 1..numVideos |-> IF hasAudio[j] THEN Pad("a", j - 1) ELSE Pad("silent", j - 1)]

ConcatGraph(numVideos, hasAudio) ==
  IF some(hasAudio)
    THEN (IF ~every(hasAudio) THEN SilentSources(0, numVideos, hasAudio) ELSE << >>)
         \o << Filter(VideoInputs(numVideos), "concat_v", Pad("V", 0)) >>
         \o << Filter(AudioInputs(numVideos, hasAudio), "concat_a", Pad("A", 0)) >>
    ELSE << Filter(VideoInputs(numVideos), "concat_v", Pad("V", 0)) >>

buildCrossfadeFilter(numVideos, duration, hasAudio, transition) ==
  IF numVideos < 2
    THEN BuildError("At least 2 videos required for crossfade")
    ELSE Built(ConcatGraph(numVideos, hasAudio))

buildWipeFilter(numVideos, duration, transition, hasAudio) ==
  IF numVideos < 2
    THEN BuildError("At least 2 videos required for wipe transition")
    ELSE Built(ConcatGraph(numVideos, hasAudio))

\* the per-clip filters of buildFadeFilter: clip 0 is copied, later clips fade in
FadeVideoFilter(i, numVideos, duration) ==
  IF i = 0
    THEN Filter(<< Pad("v", i) >>, "copy", Pad("vfade", i))
    ELSE Filter(<< Pad("v", i) >>, "fade_in", Pad("vfade", i))

FadeAudioFilter(i, numVideos, duration, hasAudio) ==
  LET audioSource == IF hasAudio[i + 1] THEN Pad("a", i) ELSE Pad("silent", i)
  IN  IF i = 0
        THEN Filter(<< audioSource >>, "acopy", Pad("afade", i))
        ELSE Filter(<< audioSource >>, "afade_in", Pad("afade", i))

buildFadeFilter(numVideos, duration, hasAudio) ==
  IF numVideos < 2
    THEN BuildError("At least 2 videos required for fade transition")
    ELSE
      LET anyHasAudio == some(hasAudio)
          silent == IF anyHasAudio /\ ~every(hasAudio)
                      THEN SilentSources(0, numVideos, hasAudio) ELSE << >>
          vfilters == [j \in 1..numVideos |-> FadeVideoFilter(j - 1, numVideos, duration)]
          afilters == IF anyHasAudio
                        THEN [j \in 1..numVideos |->
                                FadeAudioFilter(j - 1, numVideos, duration, hasAudio)]
                        ELSE << >>
          videoLabels == [j \in 1..numVideos |-> Pad("vfade", j - 1)]
          audioLabels == [j \in 1..numVideos |-> Pad("afade", j - 1)]
      IN  Built(silent \o vfilters
                \o << Filter(videoLabels, "concat_v", Pad("V", 0)) >>
                \o afilters
                \o (IF anyHasAudio
                      THEN << Filter(audioLabels, "concat_a", Pad("A", 0)) >>
                      ELSE << >>))

(***************************************************************************)
(* Requests.  A request is [ep, multipart, hasFile, nfiles, op, argsState, *)
(* args]: ep is the handler that serves it ("buffered" is the              *)
(* upload.single handler of /api/process-video, "process" the handler with *)
(* the multipart and the streaming path, "transition" is                   *)
(* /api/transition-videos, "captions" is /api/generate-captions); op is "" *)
(* when no operation is given;                                             *)
(* argsState says whether the args text is valid JSON, malformed or        *)
(* absent.                                                                 *)
(***************************************************************************)
ResizeArgs == Merge(Opt("width", {-1, 0, 2}), Opt("height", {2}))
CropArgs == Merge(Merge(Opt("x", {0, 3}), {[y |-> 0], [y |-> 2]}), {[width |-> 4, height |-> 4]})
TextArgs == Merge(Merge(Opt("text", {"", "hi"}), Opt("x", {0, 5})), Opt("y", {0}))
TrimArgs == Merge(Opt("start", {0, 2}), Opt("end", {5}))
SpeedValues == {Rat(n, d) : n \in -1..MaxSpeedNum, d \in 1..MaxSpeedDen}
SpeedArgs == {[speed |-> s] : s \in SpeedValues}
VolumeArgs == Opt("volume", {-1, 0, 1})
FadeArgs == Merge(Merge(Opt("type", {"in", "out", "sideways"}), Opt("duration", {0, 2})), {[start |-> 0]})
PanValues == {Rat(k, PanDen) : k \in -(PanDen + 1)..(PanDen + 1)}
PanArgs == {[pan |-> p] : p \in PanValues}
AudioTrackArgs ==
  Merge(Merge(Opt("audioFile", {"", "not base64!", "b2s=", "bG9uZ2Vy"}),
              Opt("mode", {"replace", "mix", "blend"})),
        Opt("volume", {1, 3}))
SubtitleArgs ==
  Merge(Merge(Opt("srtContent", {"1 hello"}), Opt("style", {"yellow", "white_on_black", "neon"})),
        Merge(Opt("position", {"top", "bottom", "sideways"}),
              Opt("translatedSrtContent", {"1 hallo"})))
TransitionArgs ==
  Merge(Opt("transition", {"crossfade", "dissolve", "fade", "wipe_left", "slide_up", "zoom"}),
        Opt("duration", {2}))

\* the fixed lists of the conversion cases
supportedVideoFormats == {"mp4", "webm", "mov", "avi", "mkv", "flv", "ogv"}
supportedVideoCodecs == {"libx264", "libx265", "libvpx-vp9", "auto"}
supportedAudioFormats == {"mp3", "wav", "aac", "ogg", "flac", "m4a", "wma"}
supportedExtractFormats == {"mp3", "wav", "aac", "ogg", "flac", "m4a"}

ConvertVideoArgs == Merge(Opt("format", {"", "mp4", "webm", "exe"}), Opt("codec", {"auto", "libx264", "mpeg9"}))
ConvertAudioArgs == Opt("format", {"mp3", "wma", "mp4"})
ExtractAudioArgs == Opt("format", {"", "m4a", "wma", "webm"})

CaptionArgs == Opt("language", {"en"})

ArgsFor(op) ==
  CASE op = "resize_video" -> ResizeArgs
    [] op = "crop_video" -> CropArgs
    [] op = "add_text" -> TextArgs
    [] op = "trim_video" -> TrimArgs
    [] op = "speed_video" -> SpeedArgs
    [] op = "adjust_volume" -> VolumeArgs
    [] op = "audio_fade" -> FadeArgs
    [] op = "audio_pan" -> PanArgs
    [] op = "add_audio_track" -> AudioTrackArgs
    [] op = "burn_subtitles" -> SubtitleArgs
    [] op = "convert_video_format" -> ConvertVideoArgs
    [] op = "convert_audio_format" -> ConvertAudioArgs
    [] op = "extract_audio" -> ExtractAudioArgs
    [] OTHER -> {NoArgs}

\* the operations of the dispatch switch that the model follows, an
\* unregistered one, and the two that need a second input
StreamingOps == {"resize_video", "crop_video", "add_text", "trim_video", "speed_video",
                 "adjust_volume", "audio_fade", "audio_pan", "flip_video_horizontal"}
SecondaryOps == {"add_audio_track", "burn_subtitles"}
OtherOps == {"get_video_info", "crossfade_transition", "teleport_video"}
conversionOps == {"convert_video_format", "convert_audio_format", "extract_audio"}
audioOnlyOps == {"convert_audio_format", "extract_audio"}
AllOps == StreamingOps \cup conversionOps \cup SecondaryOps \cup OtherOps

Request(ep, multipart, hasFile, nfiles, op, argsState, args) ==
  [ep |-> ep, multipart |-> multipart, hasFile |-> hasFile, nfiles |-> nfiles,
   op |-> op, argsState |-> argsState, args |-> args]

NoReq == Request("", FALSE, FALSE, 0, "", "absent", NoArgs)

\* requests whose args text is valid JSON
OpRequests(ep, multipart, ops) ==
  UNION {{Request(ep, multipart, TRUE, 1, op, "ok", a) : a \in ArgsFor(op)} : op \in ops}

\* requests with a missing file, a missing operation, malformed or absent args
Malformed(ep, multipart, ops) ==
  {Request(ep, multipart, FALSE, 0, "flip_video_horizontal", "ok", NoArgs),
   Request(ep, multipart, TRUE, 1, "", "ok", NoArgs)}
  \cup {Request(ep, multipart, TRUE, 1, op, st, NoArgs) : op \in ops, st \in {"bad", "absent"}}

HttpRequests ==
  OpRequests("buffered", TRUE, AllOps \ {"burn_subtitles"})
  \cup Malformed("buffered", TRUE, {"resize_video", "add_audio_track", "get_video_info"})
  \cup OpRequests("process", TRUE, SecondaryOps \cup {"resize_video"})
  \cup Malformed("process", TRUE, SecondaryOps)
  \cup OpRequests("process", FALSE, StreamingOps \cup conversionOps \cup OtherOps)
  \cup Malformed("process", FALSE, {"resize_video", "add_text"})
  \cup {Request("transition", TRUE, n > 0, n, "", "ok", a) : n \in 0..MaxVideos, a \in TransitionArgs}
  \cup {Request("captions", FALSE, hasFile, 1, "", "ok", a) : hasFile \in BOOLEAN, a \in CaptionArgs}
  \cup {Request("captions", FALSE, TRUE, 1, "", st, NoArgs) : st \in {"bad", "absent"}}

(***************************************************************************)
(* State.                                                                  *)
(***************************************************************************)
VARIABLES
  pc,       \* position of the request: idle, arrived, limited, authenticated (the
            \* middleware chain), received, tempo_slow, tempo_fast, built, running,
            \* done, crashed (the handler threw, no answer)
  req,      \* the request being served
  client,   \* the client tool call that made it: its tool, arguments and clips,
            \* its result, and whether it called the server
  tmp,      \* temp files now on disk under /tmp
  written,  \* temp files ever written for this request
  res,      \* the HTTP response: [status, headersSent, body, contentType]
  engine,   \* the FFmpeg process of the request: none, running, ended, failed
  probes,   \* number of ffprobe processes started
  stages,   \* the pipeline stages the handler went through, in order
  cmd,      \* the command handed to the engine
  tempo,    \* locals of the atempo loops: [remainingSpeed, filters]
  probed,   \* the results of the ffprobe runs of this request, in order
  caller,   \* who sent the request: [token, session, windowHits]
  oversize, \* TRUE when an uploaded input is larger than the 100MB fileSize limit
  closed,   \* TRUE once the client has closed the connection
  unlinkFailed, \* TRUE when an fs.unlink of the success path was rejected
  sample, \* the sending client's sample mode: [enabled, token], its
          \* sampleModeEnabled flag and the sample access token it holds
  chat,  \* the chat client: React state, the running callAPI chain and
         \* the tool calls made so far
  account, \* the one user's row of the users table, the Stripe checkout
           \* sessions of that customer, and the last OAuth callback
  tokens  \* the sampleAccessTokens map of the server with its clock and
          \* the history of issued, rejected and swept tokens

vars ==
  <<pc, req, client, tmp, written, res, engine, probes, stages,
    cmd, tempo, probed, caller, oversize, closed, unlinkFailed, sample,
    chat, account, tokens>>

\* contentType is the Content-Type set with res.set, "" while none was set
NoRes == [status |-> 0, headersSent |-> FALSE, body |-> "none", contentType |-> ""]
Response(status, body) ==
  [status |-> status, headersSent |-> TRUE, body |-> body, contentType |-> ""]
Typed(response, contentType) == [response EXCEPT !.contentType = contentType]
NoCmd == [kind |-> "none"]
NoTempo == [remainingSpeed |-> One, filters |-> << >>]
NoClient ==
  [tool |-> "", args |-> NoArgs, uploadedVideos |-> 0, argVideos |-> 0,
   result |-> "none", called |-> FALSE]

NoCaller == [token |-> "none", session |-> "none", windowHits |-> 0]
NoSample == [enabled |-> FALSE, token |-> "none"]

\* the empty sampleAccessTokens map at time 0.  map and issued take a token to
\* its expiresAt, 0 standing for "no entry"; issued keeps what
\* issueSampleAccessToken ever set, rejected the tokens ever refused, last
\* the latest validation and swept the entries the latest cleanup deleted.
NoTokens ==
  [now |-> 0, map |-> [t \in 1..MaxTokens |-> 0], issued |-> [t \in 1..MaxTokens |-> 0],
   rejected |-> {}, last |-> [token |-> 0, at |-> 0, accepted |-> FALSE],
   swept |-> {}, sweptAt |-> 0]

\* the server before it starts; sessions[i] is the payment state Stripe holds
\* for checkout session i, stale the sessions that were paid when the
\* subscription was last cancelled, lastGrant the session whose report last
\* set has_subscription (0: none)
NoCallback == [valid |-> FALSE, has_subscription |-> FALSE, redirect |-> ""]
NoAccount ==
  [up |-> FALSE, stripe |-> FALSE, webhookSecret |-> FALSE, has_subscription |-> FALSE,
   sessions |-> << >>, delivered |-> {}, stale |-> {}, lastGrant |-> 0,
   callback |-> NoCallback, status |-> 0]

\* the chat client after an upload: the React state videoFileData holds the
\* uploaded video, version 0; an output of a tool call is a new version.
\* captured is the videoFileData of the render whose callAPI is running.
NoChat ==
  [phase |-> "idle", videoFileData |-> 0, captured |-> 0, pending |-> 0, round |-> 0,
   chains |-> 0, calls |-> << >>]

Init ==
  /\ pc = "idle"
  /\ req = NoReq
  /\ client = NoClient
  /\ tmp = {}
  /\ written = {}
  /\ res = NoRes
  /\ engine = "none"
  /\ probes = 0
  /\ stages = << >>
  /\ cmd = NoCmd
  /\ tempo = NoTempo
  /\ probed = << >>
  /\ caller = NoCaller
  /\ oversize = FALSE
  /\ closed = FALSE
  /\ unlinkFailed = FALSE
  /\ sample = NoSample
  /\ chat = NoChat
  /\ account = NoAccount
  /\ tokens = NoTokens

\* max of videoProcessLimiter: requests per window and IP
videoProcessLimiterMax == 20
apiLimiterMax == 100

\* a caller: the sample-access-token header it sends ("none": no header,
\* "valid": issued and not expired, "expired", "forged": never issued), its
\* session ("none": not authenticated, "user": authenticated without
\* subscription, "subscriber"), and the requests of its IP already counted in
\* the limiter's window
Callers ==
  [token : {"none", "valid", "expired", "forged"},
   session : {"none", "user", "subscriber"},
   windowHits : {videoProcessLimiterMax - 1, videoProcessLimiterMax}]

\* a request sent straight to the HTTP boundary
HttpRequest(r, c, big) ==
  /\ pc = "idle"
  /\ big => r.hasFile
  /\ pc' = "arrived"
  /\ req' = r
  /\ caller' = c
  /\ oversize' = big
  /\ UNCHANGED <<client, tmp, written, res, engine, probes, stages, cmd, tempo, probed, closed,
                 unlinkFailed, sample, chat, account, tokens>>

\* validateSampleAccessToken: a string of the map that has not expired
validateSampleAccessToken(token) == token = "valid"

isValidSampleModeRequest(c) == validateSampleAccessToken(c.token)

\* requireActiveSubscription that lets every authenticated user through
requireActiveSubscriptionOpen(c) == "next"

\* the three middlewares: "next" or the status they answer with
requireAuthenticatedUser(c) ==
  IF isValidSampleModeRequest(c) THEN "next"
  ELSE IF c.token # "none" THEN "401"
  ELSE IF c.session = "none" THEN "401"
  ELSE "next"

requireActiveSubscription(c) ==
  IF isValidSampleModeRequest(c) THEN "next"
  ELSE IF c.session # "subscriber" THEN "403"
  ELSE "next"

\* the limiter of the route: apiLimiter for /api/chat, videoProcessLimiter for
\* the video routes
LimiterMax(r) == IF r.ep = "chat" THEN apiLimiterMax ELSE videoProcessLimiterMax

\* the rate limiter: count the request, answer 429 beyond max
RateLimit ==
  /\ pc = "arrived"
  /\ caller' = [caller EXCEPT !.windowHits = caller.windowHits + 1]
  /\ IF caller.windowHits + 1 > LimiterMax(req)
       THEN pc' = "done" /\ res' = Response(429, "text")
       ELSE pc' = "limited" /\ res' = res
  /\ UNCHANGED <<req, client, tmp, written, engine, probes, stages, cmd, tempo, probed,
                 oversize, closed, unlinkFailed, sample, chat, account, tokens>>

RequireAuthenticatedUser ==
  /\ pc = "limited"
  /\ IF requireAuthenticatedUser(caller) = "next"
       THEN pc' = "authenticated" /\ res' = res
       ELSE pc' = "done" /\ res' = Response(401, "json")
  /\ UNCHANGED <<req, client, tmp, written, engine, probes, stages, cmd, tempo, probed, caller,
                 oversize, closed, unlinkFailed, sample, chat, account, tokens>>

RequireActiveSubscription ==
  /\ pc = "authenticated"
  /\ IF requireActiveSubscription(caller) = "next"
       THEN pc' = "received" /\ res' = res
       ELSE pc' = "done" /\ res' = Response(403, "json")
  /\ UNCHANGED <<req, client, tmp, written, engine, probes, stages, cmd, tempo, probed, caller,
                 oversize, closed, unlinkFailed, sample, chat, account, tokens>>

\* the token's expiry time passes while the request is in the chain
SampleTokenExpires ==
  /\ pc \in {"arrived", "limited", "authenticated"}
  /\ caller.token = "valid"
  /\ caller' = [caller EXCEPT !.token = "expired"]
  /\ UNCHANGED <<pc, req, client, tmp, written, res, engine, probes, stages, cmd, tempo,
                 probed, oversize, closed, unlinkFailed, sample, chat, account,
                 tokens>>

(***************************************************************************)
(* The dispatch switch of /api/process-video.                              *)
(***************************************************************************)
Undefined == [undef |-> TRUE]
NaN == [nan |-> TRUE]
Val(x) == [v |-> x]

\* ${parsedArgs.f} as it is written into a filter string
Arg(args, f) == IF Has(args, f) THEN Val(args[f]) ELSE Undefined

Command(filter) == [kind |-> "command", filter |-> filter]
Reject(status, body) == [kind |-> "reject", status |-> status, body |-> body]
Throw == [kind |-> "throw"]
TempoLoop(dir) == [kind |-> "tempo", dir |-> dir]

\* PanGains with the two channels exchanged
PanGainsSwapped(panValue) ==
  IF RLt(panValue, Zero)
    THEN [left |-> RAdd(One, panValue), right |-> One]
    ELSE IF RLt(Zero, panValue)
      THEN [left |-> One, right |-> RSub(One, panValue)]
      ELSE [left |-> One, right |-> One]

\* case 'audio_pan': left and right gain of a pan value
PanGains(panValue) ==
  IF RLt(panValue, Zero)
    THEN [left |-> One, right |-> RAdd(One, panValue)]
    ELSE IF RLt(Zero, panValue)
      THEN [left |-> RSub(One, panValue), right |-> One]
      ELSE [left |-> One, right |-> One]

\* case 'speed_video': which of the three branches a speed takes
SpeedBranch(speed) ==
  IF RLe(Half, speed) /\ RLe(speed, Two) THEN "single"
  ELSE IF RLt(speed, Half) THEN "slow"
  ELSE "fast"

\* TempoTail that forgets the remaining factor
TempoTailDropped(remainingSpeed, filters) == filters

\* if (remainingSpeed !== 1.0) filters.push(`atempo=${remainingSpeed}`)
TempoTail(remainingSpeed, filters) ==
  IF remainingSpeed # One THEN Append(filters, remainingSpeed) ELSE filters

SpeedCommand(speed, audioFilter) ==
  Command([f |-> "speed", setptsDivisor |-> speed, atempo |-> audioFilter])

\* parsedArgs.codec && parsedArgs.codec !== 'auto' ? parsedArgs.codec : null (-c copy)
VideoCodec(args) ==
  IF StrOrDefault(args, "codec", "auto") # "auto" THEN args.codec ELSE "copy"

\* the conversion cases of the buffered handler: no membership test
BufferedConversion(op, args) ==
  CASE op = "convert_video_format" ->
         Command([f |-> "convert", noVideo |-> FALSE,
                  codec |-> VideoCodec(args), toFormat |-> << Arg(args, "format") >>])
    [] op = "convert_audio_format" ->
         Command([f |-> "convert", noVideo |-> TRUE,
                  codec |-> "default", toFormat |-> << Arg(args, "format") >>])
    [] OTHER ->
         Command([f |-> "convert", noVideo |-> TRUE, codec |-> "default",
                  toFormat |-> << Val(StrOrDefault(args, "format", "mp3")) >>])

\* the cases of the switch of the streaming handler; the buffered handler
\* shares those before the conversions
SingleInputFilter(op, args) ==
  CASE op = "resize_video" ->
         Command([f |-> "scale", width |-> Arg(args, "width"), height |-> Arg(args, "height")])
    [] op = "crop_video" ->
         Command([f |-> "crop", width |-> Arg(args, "width"), height |-> Arg(args, "height"),
                  x |-> Arg(args, "x"), y |-> Arg(args, "y")])
    [] op = "flip_video_horizontal" -> Command([f |-> "hflip"])
    [] op = "add_text" ->
         IF ~Has(args, "text") THEN Throw   \* undefined.replace(...)
         ELSE Command([f |-> "drawtext", text |-> args.text,
                       x |-> OrDefault(args, "x", 10), y |-> OrDefault(args, "y", 10),
                       fontsize |-> OrDefault(args, "fontsize", 24)])
    [] op = "trim_video" ->
         Command([f |-> "trim", start |-> Arg(args, "start"),
                  duration |-> IF Has(args, "start") /\ Has(args, "end")
                                 THEN Val(args.end - args.start) ELSE NaN])
    [] op = "speed_video" ->
         IF SpeedBranch(args.speed) = "single"
           THEN SpeedCommand(args.speed, << args.speed >>)
           ELSE TempoLoop(SpeedBranch(args.speed))
    [] op = "adjust_volume" -> Command([f |-> "volume", volume |-> Arg(args, "volume")])
    [] op = "audio_fade" ->
         Command([f |-> "afade",
                  t |-> IF Has(args, "type") /\ args.type = "in" THEN "in" ELSE "out",
                  start |-> Arg(args, "start"), duration |-> Arg(args, "duration")])
    [] op = "audio_pan" -> Command([f |-> "pan", gains |-> PanGains(args.pan)])
    [] op = "convert_video_format" ->
         IF StrOrDefault(args, "format", "") \notin supportedVideoFormats THEN Reject(400, "empty")
         ELSE IF StrOrDefault(args, "codec", "auto") \notin supportedVideoCodecs
           THEN Reject(400, "empty")
         ELSE Command([f |-> "convert", noVideo |-> FALSE,
                       codec |-> VideoCodec(args), toFormat |-> << Val(args.format) >>])
    [] op = "convert_audio_format" ->
         IF StrOrDefault(args, "format", "") \notin supportedAudioFormats THEN Reject(400, "empty")
         ELSE Command([f |-> "convert", noVideo |-> TRUE,
                       codec |-> "default", toFormat |-> << Val(args.format) >>])
    [] op = "extract_audio" ->
         IF StrOrDefault(args, "format", "mp3") \notin supportedExtractFormats
           THEN Reject(400, "empty")
         ELSE Command([f |-> "convert", noVideo |-> TRUE, codec |-> "default",
                       toFormat |-> << Val(StrOrDefault(args, "format", "mp3")) >>])
    [] op = "crossfade_transition" -> Reject(400, "json")
    [] OTHER -> Reject(400, "json")   \* Unknown operation

\* parseAudioInput: throws unless audioFile is a non-empty base64 string
parseAudioInput(args) ==
  IF ~Has(args, "audioFile") THEN [error |-> TRUE, extension |-> ""]
  ELSE IF args.audioFile = "" THEN [error |-> TRUE, extension |-> ""]
  ELSE IF args.audioFile = "not base64!" THEN [error |-> TRUE, extension |-> ""]
  ELSE [error |-> FALSE, extension |-> "audio"]

\* the filter graph and -map options of add_audio_track
AudioTrackCommand(mode, volume, sourceHasAudio) ==
  IF mode = "mix" /\ sourceHasAudio
    THEN Command([f |-> "add_audio_track", volume |-> volume,
                  graph |-> << Filter(<< Pad("a", 1) >>, "volume", Pad("newaudio", 0)),
                               Filter(<< Pad("a", 0), Pad("newaudio", 0) >>, "amix",
                                      Pad("mixedaudio", 0)) >>,
                  amixDuration |-> "first",
                  maps |-> << "0:v:0", "mixedaudio" >>,
                  shortest |-> TRUE])
    ELSE Command([f |-> "add_audio_track", volume |-> volume,
                  graph |-> << Filter(<< Pad("a", 1) >>, "volume", Pad("newaudio", 0)) >>,
                  amixDuration |-> "none",
                  maps |-> << "0:v:0", "newaudio" >>,
                  shortest |-> TRUE])

ModeOf(args) == IF Has(args, "mode") /\ args.mode # "" THEN args.mode ELSE "replace"
VolumeOf(args) == Coalesce(args, "volume", 1)
ModeValid(mode) == mode = "replace" \/ mode = "mix"
VolumeValid(volume) == ~(volume < 0 \/ volume > 2)

\* ASS alignment and style of burn_subtitles
ASS_ALIGN_BOTTOM == 2
ASS_ALIGN_TOP == 8
validStyles == {"default", "white_on_black", "yellow"}
validPositions == {"bottom", "top"}

\* the colour, outline and background part of force_style for a style preset
StyleParams(style) ==
  CASE style = "white_on_black" ->
         "PrimaryColour=&H00FFFFFF,OutlineColour=&H00000000,BackColour=&H80000000,BorderStyle=4,Outline=0,Shadow=0"
    [] style = "yellow" -> "PrimaryColour=&H0000FFFF,OutlineColour=&H00000000,Bold=1"
    [] OTHER -> "PrimaryColour=&H00FFFFFF,OutlineColour=&H00000000,Bold=0"

alignment(position) == IF position = "top" THEN ASS_ALIGN_TOP ELSE ASS_ALIGN_BOTTOM

\* a translatedAlignment that puts the translation on the primary track
translatedAlignmentSame(position) == alignment(position)

\* the translated track goes to the opposite end of the video
translatedAlignment(position) == IF position = "top" THEN ASS_ALIGN_BOTTOM ELSE ASS_ALIGN_TOP

forceStyle(style, position) ==
  [FontSize |-> 20, Alignment |-> alignment(position), params |-> StyleParams(style)]

translatedForceStyle(style, position) ==
  [FontSize |-> 18, Alignment |-> translatedAlignment(position), params |-> StyleParams(style)]

\* videoFilter: one subtitles filter, or two chained when a translation is given
SubtitleCommand(style, position, hasTranslation) ==
  Command([f |-> "subtitles", style |-> style,
           alignment |-> alignment(position),
           hasTranslation |-> hasTranslation,
           translatedAlignment |-> translatedAlignment(position),
           videoFilter |->
             IF hasTranslation
               THEN << [file |-> "srtPath", force_style |-> forceStyle(style, position)],
                       [file |-> "translatedSrtPath",
                        force_style |-> translatedForceStyle(style, position)] >>
               ELSE << [file |-> "srtPath", force_style |-> forceStyle(style, position)] >>])

\* what ffprobe calls back with: an error, or metadata with its streams
ProbeResults ==
  {[err |-> TRUE, streams |-> {}],
   [err |-> FALSE, streams |-> {"video"}],
   [err |-> FALSE, streams |-> {"video", "audio"}]}

\* checkHasAudioStream that takes a failed probe for an input with audio
checkHasAudioStreamOptimistic(metadata) ==
  IF metadata.err THEN TRUE ELSE "audio" \in metadata.streams

\* checkHasAudioStream: resolve(false) on a probe error, else whether some
\* stream has codec_type 'audio'
checkHasAudioStream(metadata) ==
  IF metadata.err THEN FALSE ELSE "audio" \in metadata.streams

\* switch (transition) of /api/transition-videos
TransitionFilter(transition, numVideos, duration, hasAudio) ==
  CASE transition = "crossfade" -> buildCrossfadeFilter(numVideos, duration, hasAudio, "fade")
    [] transition = "dissolve" -> buildCrossfadeFilter(numVideos, duration, hasAudio, "dissolve")
    [] transition = "fade" -> buildFadeFilter(numVideos, duration, hasAudio)
    [] transition = "wipe_left" -> buildWipeFilter(numVideos, duration, "wipeleft", hasAudio)
    [] transition = "wipe_right" -> buildWipeFilter(numVideos, duration, "wiperight", hasAudio)
    [] transition = "wipe_up" -> buildWipeFilter(numVideos, duration, "wipeup", hasAudio)
    [] transition = "wipe_down" -> buildWipeFilter(numVideos, duration, "wipedown", hasAudio)
    [] transition = "slide_left" -> buildWipeFilter(numVideos, duration, "slideleft", hasAudio)
    [] transition = "slide_right" -> buildWipeFilter(numVideos, duration, "slideright", hasAudio)
    [] transition = "slide_up" -> buildWipeFilter(numVideos, duration, "slideup", hasAudio)
    [] transition = "slide_down" -> buildWipeFilter(numVideos, duration, "slidedown", hasAudio)
    [] OTHER -> BuildError("Unknown transition type")

\* outputLabels and the -map options: [v], and [a] if some input has audio;
\* the command keeps the probe results it was built from
OutputLabels(hasAudio) == IF some(hasAudio) THEN << "v", "a" >> ELSE << "v" >>

TransitionCommand(graph, hasAudio) ==
  Command([f |-> "transition", graph |-> graph.filters, hasAudio |-> hasAudio,
           outputLabels |-> OutputLabels(hasAudio), maps |-> OutputLabels(hasAudio)])

(***************************************************************************)
(* What a handler has done when it returns or first waits for the engine:  *)
(* the stages it went through are "validate" (a check of the request's     *)
(* arguments), "stage" (an input written to /tmp), "probe" (ffprobe),      *)
(* "dispatch" (the switch over the operation or transition name), "build"  *)
(* (the command with its filter graph) and "execute".                      *)
(***************************************************************************)
Outcome(p, t, w, r, n, st, c) ==
  [pc |-> p, tmp |-> t, written |-> w, res |-> r, probes |-> n, stages |-> st, cmd |-> c]

\* return res.status(status).json(...) before anything was staged
Answer(st, status, body) == Outcome("done", {}, {}, Response(status, body), 0, st, NoCmd)

\* the catch block: unlink what was staged, answer 500
Catch(w, n, st) == Outcome("done", {}, w, Response(500, "json"), n, st, NoCmd)

\* an exception that leaves the async handler: the request is never answered
Crash(st) == Outcome("crashed", {}, {}, NoRes, 0, st, NoCmd)

\* a command was built (or the atempo loop is entered) with files t staged
Proceed(t, n, st, c) ==
  Outcome("built", t, t, NoRes, n, IF c.kind = "tempo" THEN st ELSE st \o << "build" >>, c)

InputFile == Pad("input", 0)
AudioFile == Pad("audio", 0)
SubtitleFile == Pad("subtitles", 0)
TranslatedFile == Pad("translated", 0)
OutputFile == Pad("output", 0)

\* streaming path of /api/process-video: operation and args come in headers
StreamingPath(r, probeOk) ==
  LET parsedArgs == IF r.argsState = "absent" THEN NoArgs ELSE r.args
      sw == SingleInputFilter(r.op, parsedArgs)
  IN  IF r.op = "" THEN Answer(<< "validate" >>, 400, "json")
      ELSE IF r.argsState = "bad" THEN Answer(<< "validate" >>, 400, "json")
      ELSE IF r.op = "get_video_info"
        \* the finally block unlinks the staged input on both outcomes
        THEN Outcome("done", {}, {InputFile},
                     IF probeOk THEN Response(200, "metadata") ELSE Response(500, "json"),
                     1, << "validate", "stage", "probe" >>, NoCmd)
      ELSE IF sw.kind = "reject" THEN Answer(<< "validate", "dispatch" >>, sw.status, sw.body)
      ELSE IF sw.kind = "throw" THEN Crash(<< "validate", "dispatch" >>)
      ELSE Proceed({}, 0, << "validate", "dispatch" >>, sw)

\* burn_subtitles of the multipart path
BurnSubtitlesPath(r) ==
  LET style == IF Has(r.args, "style") THEN r.args.style ELSE "default"
      position == IF Has(r.args, "position") THEN r.args.position ELSE "bottom"
      hasTranslation == Has(r.args, "translatedSrtContent")
      staged == {InputFile, SubtitleFile} \cup (IF hasTranslation THEN {TranslatedFile} ELSE {})
  IN  IF r.argsState = "absent" THEN Crash(<< "validate" >>)   \* destructuring undefined
      ELSE IF ~Has(r.args, "srtContent") THEN Answer(<< "validate" >>, 400, "json")
      ELSE IF style \notin validStyles THEN Answer(<< "validate" >>, 400, "json")
      ELSE IF position \notin validPositions THEN Answer(<< "validate" >>, 400, "json")
      ELSE Proceed(staged, 0, << "validate", "stage" >>,
                   SubtitleCommand(style, position, hasTranslation))

\* add_audio_track of the multipart path
AddAudioTrackPath(r, sourceHasAudio) ==
  LET parsedAudio == parseAudioInput(r.args)
      mode == ModeOf(r.args)
      volume == VolumeOf(r.args)
      staged == {InputFile, AudioFile}
  IN  IF r.argsState = "absent" \/ parsedAudio.error
        THEN Catch({InputFile}, 0, << "validate", "stage", "validate" >>)
      ELSE IF ~ModeValid(mode) \/ ~VolumeValid(volume)
        \* return res.status(400) inside the try: neither catch nor unlink runs
        THEN Outcome("done", staged, staged, Response(400, "json"), 1,
                     << "validate", "stage", "validate", "stage", "probe", "validate" >>, NoCmd)
      ELSE Proceed(staged, 1, << "validate", "stage", "validate", "stage", "probe", "validate" >>,
                   AudioTrackCommand(mode, volume, sourceHasAudio))

\* what Express answers when a route middleware (upload.single, upload.array)
\* passes an error to next(): the handler is not entered
MiddlewareError == Outcome("done", {}, {}, Response(500, "html"), 0, << >>, NoCmd)

\* multipart path of /api/process-video; multerError: upload.single('video')
\* failed, as it does for a file beyond limits.fileSize
MultipartPath(r, multerError, sourceHasAudio) ==
  IF multerError THEN Answer(<< "validate" >>, 400, "json")
  ELSE IF ~r.hasFile THEN Answer(<< "validate" >>, 400, "json")
  ELSE IF r.op = "" THEN Answer(<< "validate" >>, 400, "json")
  ELSE IF r.op \notin SecondaryOps THEN Answer(<< "validate" >>, 400, "json")
  ELSE IF r.argsState = "bad" THEN Crash(<< "validate" >>)   \* JSON.parse outside any try
  ELSE IF r.op = "burn_subtitles" THEN BurnSubtitlesPath(r)
  ELSE AddAudioTrackPath(r, sourceHasAudio)

\* the switch of the buffered handler: rejections become exceptions
BufferedSwitch(r, sourceHasAudio) ==
  IF r.op = "add_audio_track"
    THEN IF ~ModeValid(ModeOf(r.args)) \/ ~VolumeValid(VolumeOf(r.args))
           THEN Throw
           ELSE AudioTrackCommand(ModeOf(r.args), VolumeOf(r.args), sourceHasAudio)
    ELSE IF r.argsState = "absent" /\ r.op \in (StreamingOps \ {"flip_video_horizontal"})
      THEN Throw   \* a property of undefined is read
    ELSE IF r.op \in conversionOps THEN BufferedConversion(r.op, r.args)
    ELSE SingleInputFilter(r.op, r.args)

\* the buffered handler of /api/process-video (upload.single, temp files)
BufferedPath(r, probeOk, sourceHasAudio) ==
  LET isTrack == r.op = "add_audio_track"
      staged == IF isTrack THEN {InputFile, AudioFile} ELSE {InputFile}
      nprobe == IF isTrack THEN 1 ELSE 0
      pre == IF isTrack
               THEN << "validate", "stage", "validate", "stage", "probe" >>
               ELSE << "validate", "stage" >>
      sw == BufferedSwitch(r, sourceHasAudio)
  IN  IF ~r.hasFile THEN Answer(<< "validate" >>, 400, "json")
      ELSE IF r.op = "" THEN Answer(<< "validate" >>, 400, "json")
      ELSE IF r.argsState = "bad" THEN Catch({}, 0, << "validate" >>)
      ELSE IF isTrack /\ (r.argsState = "absent" \/ parseAudioInput(r.args).error)
        THEN Catch({InputFile}, 0, << "validate", "stage", "validate" >>)
      ELSE IF r.op = "get_video_info"
        THEN IF probeOk
               THEN Outcome("done", {}, {InputFile}, Response(200, "metadata"), 1,
                            << "validate", "stage", "probe" >>, NoCmd)
               ELSE Catch({InputFile}, 1, << "validate", "stage", "probe" >>)
      ELSE IF sw.kind \in {"reject", "throw"}
        THEN Catch(staged, nprobe, pre \o << IF isTrack THEN "validate" ELSE "dispatch" >>)
      ELSE Proceed(staged, nprobe, pre \o << IF isTrack THEN "validate" ELSE "dispatch" >>, sw)

\* /api/transition-videos
TransitionPath(r, hasAudio) ==
  LET inputs == {Pad("input", i) : i \in 0..(r.nfiles - 1)}
      transitionDuration == Coalesce(r.args, "duration", 1)
      graph == TransitionFilter(r.args.transition, r.nfiles, transitionDuration, hasAudio)
  IN  IF r.nfiles < 2 THEN Answer(<< "validate" >>, 400, "json")
      ELSE IF ~Has(r.args, "transition") THEN Answer(<< "validate" >>, 400, "json")
      ELSE IF graph.error
        THEN Catch(inputs, r.nfiles, << "validate", "stage", "probe", "dispatch" >>)
      ELSE Proceed(inputs, r.nfiles, << "validate", "stage", "probe", "dispatch" >>,
                   TransitionCommand(graph, hasAudio))

\* /api/generate-captions up to the extraction of the audio for transcription
CaptionsPath(r) ==
  IF r.argsState = "bad" THEN Answer(<< "validate" >>, 400, "json")
  ELSE IF ~r.hasFile THEN Answer(<< "validate" >>, 400, "json")   \* No video data received
  ELSE Proceed({InputFile}, 0, << "validate", "stage" >>,
               Command([f |-> "captions_audio", noVideo |-> TRUE,
                        language |-> StrOrDefault(r.args, "language", "auto")]))

(***************************************************************************)
(* Client tool functions (toolFunctions): each validates its arguments and *)
(* then calls the server.                                                  *)
(***************************************************************************)
StreamingTools == {"resize_video", "crop_video", "add_text", "trim_video", "adjust_speed",
                   "adjust_volume", "audio_fade", "flip_video_horizontal",
                   "convert_video_format", "convert_audio_format", "extract_audio"}
SUPPORTED_VIDEO_FORMATS == {"mp4", "webm", "mov", "avi", "mkv", "flv", "ogv"}
SUPPORTED_AUDIO_FORMATS == {"mp3", "wav", "aac", "ogg", "flac", "m4a", "wma"}
SUPPORTED_EXTRACT_FORMATS == {"mp3", "wav", "aac", "ogg", "flac", "m4a"}
ClientTools == StreamingTools \cup {"add_audio_track", "add_video_transition"}

\* the operation name a tool sends to the server
ServerOp(tool) == IF tool = "adjust_speed" THEN "speed_video" ELSE tool

ToolArgs(tool) ==
  IF tool = "add_video_transition" THEN TransitionArgs
  ELSE IF tool = "adjust_speed" THEN SpeedArgs \cup {NoArgs}
  ELSE ArgsFor(ServerOp(tool))

\* videosToProcess with the length tests off by one (>= 1)
videosToProcessOffByOne(uploadedVideos, argVideos) ==
  IF uploadedVideos >= 1 THEN uploadedVideos
  ELSE IF argVideos >= 1 THEN argVideos
  ELSE 0

\* videosToProcess of add_video_transition: 0 when fewer than two clips are at hand
videosToProcess(uploadedVideos, argVideos) ==
  IF uploadedVideos >= 2 THEN uploadedVideos
  ELSE IF argVideos >= 2 THEN argVideos
  ELSE 0

\* TRUE when the tool function throws before calling the server
ClientRejects(tool, args, uploadedVideos, argVideos) ==
  CASE tool = "resize_video" ->
         \/ ~Has(args, "width") \/ ~Has(args, "height")
         \/ args.width <= 0 \/ args.height <= 0
    [] tool = "crop_video" ->
         \/ ~Has(args, "x") \/ ~Has(args, "y") \/ ~Has(args, "width") \/ ~Has(args, "height")
         \/ args.x < 0 \/ args.y < 0 \/ args.width <= 0 \/ args.height <= 0
    [] tool = "add_text" -> ~Has(args, "text") \/ args.text = ""
    [] tool = "trim_video" -> ~Has(args, "start") \/ ~Has(args, "end")
    [] tool = "adjust_speed" -> ~Has(args, "speed") \/ RLe(args.speed, Zero)
    [] tool = "adjust_volume" -> ~Has(args, "volume") \/ args.volume < 0
    [] tool = "audio_fade" ->
         \/ ~Has(args, "type") \/ (args.type # "in" /\ args.type # "out")
         \/ ~Has(args, "duration") \/ args.duration <= 0
    [] tool = "add_audio_track" ->
         \/ ~Has(args, "audioFile")
         \/ ~ModeValid(ModeOf(args)) \/ ~VolumeValid(VolumeOf(args))
         \/ args.audioFile = ""   \* normalizeAudioFileInput
    [] tool = "add_video_transition" ->
         videosToProcess(uploadedVideos, argVideos) = 0 \/ ~Has(args, "transition")
    [] tool = "convert_video_format" ->
         StrOrDefault(args, "format", "") \notin SUPPORTED_VIDEO_FORMATS
    [] tool = "convert_audio_format" ->
         StrOrDefault(args, "format", "") \notin SUPPORTED_AUDIO_FORMATS
    [] tool = "extract_audio" ->
         StrOrDefault(args, "format", "mp3") \notin SUPPORTED_EXTRACT_FORMATS
    [] OTHER -> FALSE

\* the request a tool function sends
ClientRequest(tool, args, uploadedVideos, argVideos) ==
  CASE tool = "add_audio_track" ->
         Request("process", TRUE, TRUE, 1, "add_audio_track", "ok",
                 [audioFile |-> args.audioFile, mode |-> ModeOf(args), volume |-> VolumeOf(args)])
    [] tool = "add_video_transition" ->
         Request("transition", TRUE, TRUE, videosToProcess(uploadedVideos, argVideos), "", "ok",
                 [transition |-> args.transition, duration |-> OrDefault(args, "duration", 1)])
    [] tool = "extract_audio" ->   \* { ...args, format }
         Request("process", FALSE, TRUE, 1, "extract_audio", "ok",
                 [format |-> StrOrDefault(args, "format", "mp3")])
    [] OTHER -> Request("process", FALSE, TRUE, 1, ServerOp(tool), "ok", args)

\* the keys of the dispatch table toolFunctions
toolFunctions ==
  {"resize_video", "crop_video", "rotate_video", "flip_video_horizontal", "add_text",
   "trim_video", "adjust_speed", "adjust_volume", "audio_fade", "highpass_filter",
   "lowpass_filter", "echo_effect", "bass_adjustment", "treble_adjustment", "equalizer",
   "normalize_audio", "delay_audio", "adjust_brightness", "adjust_hue", "adjust_saturation",
   "get_video_info", "add_audio_track", "convert_to_format", "convert_video_format",
   "convert_audio_format", "extract_audio", "get_supported_formats",
   "resize_to_aspect_ratio", "add_video_transition", "adjust_audio_volume",
   "audio_highpass", "audio_lowpass", "audio_echo", "adjust_bass", "adjust_treble",
   "audio_equalizer", "audio_delay", "resize_video_preset", "get_video_dimensions",
   "generate_captions"}

\* the function names of the LLM tool schema (tools), as far as the tools tests
\* assert them
tools ==
  {"add_text", "adjust_audio_volume", "adjust_bass", "adjust_brightness", "adjust_hue",
   "adjust_saturation", "adjust_speed", "adjust_treble", "audio_chorus", "audio_compressor",
   "audio_delay", "audio_echo", "audio_equalizer", "audio_fade", "audio_flanger",
   "audio_gate", "audio_highpass", "audio_limiter", "audio_lowpass", "audio_pan",
   "audio_phaser", "audio_reverse", "audio_silence_remove", "audio_stereo_widen",
   "audio_tremolo", "audio_vibrato", "convert_audio_format", "convert_video_format",
   "crop_video", "extract_audio", "generate_captions", "get_supported_formats",
   "get_video_dimensions", "normalize_audio", "resize_video", "resize_video_preset",
   "rotate_video", "trim_video"}

\* the tool loop of callAPI: toolFunctions[funcName](...) for a tool call of the
\* model; calling a missing entry is a TypeError
DispatchToolCall(funcName) ==
  /\ pc = "idle"
  /\ pc' = "done"
  /\ client' = [NoClient EXCEPT !.tool = funcName,
                                !.result = IF funcName \in toolFunctions
                                             THEN "dispatched" ELSE "TypeError"]
  /\ UNCHANGED <<req, tmp, written, res, engine, probes, stages, cmd, tempo, probed, caller,
                 oversize, closed, unlinkFailed, sample, chat, account, tokens>>

\* the sample mode states of a client: the token it holds is none (not yet
\* fetched), valid, or one whose time to live has passed
SampleStates == [enabled : BOOLEAN, token : {"none", "valid", "expired"}]

\* the sample mode headers of the fetch calls of the tool functions
sampleHeaders(sm) ==
  IF sm.enabled /\ sm.token # "none"
    THEN ("x-operation" :> "") @@ ("sample-access-token" :> sm.token)
    ELSE ("x-operation" :> "")

\* the headers of the fetch('/api/chat') of callAPI
callAPIHeaders(sm) ==
  IF sm.enabled
    THEN IF sm.token # "none"
           THEN ("Content-Type" :> "application/json") @@ ("x-finalcut-sample-mode" :> "true")
                  @@ ("x-finalcut-sample-token" :> sm.token)
           ELSE ("Content-Type" :> "application/json") @@ ("x-finalcut-sample-mode" :> "true")
    ELSE ("Content-Type" :> "application/json")

\* req.headers['sample-access-token'] as the middleware reads it
SampleAccessTokenHeader(headers) ==
  IF "sample-access-token" \in DOMAIN headers THEN headers["sample-access-token"] ELSE "none"

ClientToolCall(tool, args, uploadedVideos, argVideos, c, sm) ==
  /\ pc = "idle"
  /\ sample' = sm
  /\ IF ClientRejects(tool, args, uploadedVideos, argVideos)
       THEN /\ client' = [tool |-> tool, args |-> args, uploadedVideos |-> uploadedVideos,
                         argVideos |-> argVideos, result |-> "failed", called |-> FALSE]
            /\ pc' = "done"
            /\ req' = req
            /\ caller' = caller
       ELSE /\ client' = [tool |-> tool, args |-> args, uploadedVideos |-> uploadedVideos,
                         argVideos |-> argVideos, result |-> "pending", called |-> TRUE]
            /\ pc' = "arrived"
            /\ req' = ClientRequest(tool, args, uploadedVideos, argVideos)
            /\ caller' = [c EXCEPT !.token = SampleAccessTokenHeader(sampleHeaders(sm))]
  /\ UNCHANGED <<tmp, written, res, engine, probes, stages, cmd, tempo, probed, oversize,
                 closed, unlinkFailed, chat, account, tokens>>

\* callAPI: the chat request of the client; messages: whether the body
\* carries a messages array
CallAPI(c, sm, messages) ==
  /\ pc = "idle"
  /\ sample' = sm
  /\ pc' = "arrived"
  /\ req' = Request("chat", FALSE, FALSE, 0, "", messages, NoArgs)
  /\ caller' = [c EXCEPT !.token = SampleAccessTokenHeader(callAPIHeaders(sm))]
  /\ UNCHANGED <<client, tmp, written, res, engine, probes, stages, cmd, tempo, probed,
                 oversize, closed, unlinkFailed, chat, account, tokens>>

\* the browsers a client runs in: session cookie or none, and the requests
\* its address has made in the limiter window
ClientCallers(max) ==
  [token : {"none"}, session : {"none", "user", "subscriber"}, windowHits : {max - 1, max}]

(***************************************************************************)
(* The chat loop of the client: handleSend starts callAPI, the model        *)
(* answers with tool calls, each is run, and callAPI calls itself with the  *)
(* tool results.                                                           *)
(***************************************************************************)
EditingTools == {"resize_video", "trim_video", "add_text"}

\* handleSend: callAPI of the current render is called; it closes over the
\* videoFileData of that render
HandleSend ==
  /\ chat.phase \in {"idle", "ended"}
  /\ chat.chains < MaxChains
  /\ chat' = [chat EXCEPT !.phase = "calling", !.captured = chat.videoFileData,
                            !.round = 1, !.chains = chat.chains + 1]
  /\ UNCHANGED <<pc, req, client, tmp, written, res, engine, probes, stages, cmd, tempo,
                 probed, caller, oversize, closed, unlinkFailed, sample, account,
                 tokens>>

\* the streamed answer of the model carries n tool calls; with none the
\* chain ends
ModelAnswers(n) ==
  /\ chat.phase = "calling"
  /\ n > 0 => chat.round <= MaxRounds
  /\ chat' = IF n = 0 THEN [chat EXCEPT !.phase = "ended"]
              ELSE [chat EXCEPT !.phase = "tools", !.pending = n]
  /\ UNCHANGED <<pc, req, client, tmp, written, res, engine, probes, stages, cmd, tempo,
                 probed, caller, oversize, closed, unlinkFailed, sample, account,
                 tokens>>

\* the videoFileData argument of toolFunctions[funcName](args, videoFileData,
\* setVideoFileData, addMessage) in the loop of callAPI
ToolInput(ch) == ch.captured

\* one iteration of the tool loop: the tool function gets videoFileData and,
\* when the server call succeeds, calls setVideoFileData with the output;
\* after the last call of the answer callAPI calls itself
RunToolCall(funcName, ok) ==
  /\ chat.phase = "tools"
  /\ chat.pending > 0
  /\ LET output == Len(chat.calls) + 1
         call == [chain |-> chat.chains, round |-> chat.round, tool |-> funcName,
                  input |-> ToolInput(chat), ok |-> ok, output |-> output]
     IN  chat' = [chat EXCEPT
                     !.calls = Append(chat.calls, call),
                     !.videoFileData = IF ok THEN output ELSE chat.videoFileData,
                     !.pending = chat.pending - 1,
                     !.phase = IF chat.pending = 1 THEN "calling" ELSE "tools",
                     !.round = IF chat.pending = 1 THEN chat.round + 1 ELSE chat.round]
  /\ UNCHANGED <<pc, req, client, tmp, written, res, engine, probes, stages, cmd, tempo,
                 probed, caller, oversize, closed, unlinkFailed, sample, account,
                 tokens>>

NextChain ==
  \/ HandleSend
  \/ \E n \in 0..(MaxCalls - Len(chat.calls)) : ModelAnswers(n)
  \/ \E funcName \in EditingTools, ok \in BOOLEAN : RunToolCall(funcName, ok)

(***************************************************************************)
(* Accounts: the OAuth callback, the Stripe webhook and the verification   *)
(* of a checkout session, for one user.                                    *)
(***************************************************************************)
Others == <<pc, req, client, tmp, written, res, engine, probes, stages, cmd, tempo, probed,
            caller, oversize, closed, unlinkFailed, sample, chat>>
Requests == <<pc, req, client, tmp, written, res, engine, probes, stages, cmd, tempo, probed,
              caller, oversize, closed, unlinkFailed, sample, chat, account>>

\* the process starts: stripe is null without STRIPE_SECRET_KEY
ServerStarts(stripeKey, webhookSecret) ==
  /\ ~account.up
  /\ account' = [account EXCEPT !.up = TRUE, !.stripe = stripeKey,
                                !.webhookSecret = webhookSecret]
  /\ UNCHANGED <<Others, tokens>>

\* the process stops; the users table and Stripe keep their state
ServerStops ==
  /\ account.up
  /\ account' = [account EXCEPT !.up = FALSE, !.callback = NoCallback, !.status = 0]
  /\ UNCHANGED <<Others, tokens>>

\* the customer pays an open checkout session: Stripe marks it paid
CustomerPays(id) ==
  /\ account.up
  /\ id \in DOMAIN account.sessions
  /\ account.sessions[id] = "open"
  /\ account' = [account EXCEPT !.sessions[id] = "paid"]
  /\ UNCHANGED <<Others, tokens>>

\* updateUserSubscription(email, hasSubscription, subscriptionId)
updateUserSubscription(a, hasSubscription, id) ==
  [a EXCEPT !.has_subscription = hasSubscription, !.lastGrant = id]

\* the redirect of GET /auth/google/callback after passport.authenticate
\* succeeded; createOk: stripe.checkout.sessions.create resolves
callbackRedirect(a, emailPresent, createOk) ==
  IF ~emailPresent THEN "/?error=invalid_user"
  ELSE IF ~a.stripe THEN "/?error=payment_not_configured"
  ELSE IF ~a.has_subscription
    THEN IF createOk THEN "checkout" ELSE "/?error=auth_failed"
  ELSE "/"

GoogleCallback(emailPresent, createOk) ==
  /\ account.up
  /\ LET redirect == callbackRedirect(account, emailPresent, createOk)
     IN  /\ redirect = "checkout" => Len(account.sessions) < MaxSessions
         /\ account' = [account EXCEPT
                          !.callback = [valid |-> emailPresent,
                                        has_subscription |-> account.has_subscription,
                                        redirect |-> redirect],
                          !.sessions = IF redirect = "checkout"
                                         THEN Append(account.sessions, "open")
                                         ELSE account.sessions]
  /\ UNCHANGED <<Others, tokens>>

\* POST /api/stripe-webhook; id is the checkout session of the event
StripeWebhook(type, id, signatureOk) ==
  /\ account.up
  /\ type = "checkout.session.completed"
       => id \in DOMAIN account.sessions /\ account.sessions[id] = "paid"
            /\ id \notin account.delivered
            /\ id \notin account.stale   \* events of one customer arrive in order
  /\ type = "customer.subscription.deleted"
       => \E i \in DOMAIN account.sessions : account.sessions[i] = "paid"
  /\ account' =
       IF ~account.stripe THEN [account EXCEPT !.status = 503]
       ELSE IF ~account.webhookSecret \/ ~signatureOk THEN [account EXCEPT !.status = 400]
       ELSE IF type = "checkout.session.completed"
         THEN [updateUserSubscription(account, TRUE, id) EXCEPT
                 !.delivered = account.delivered \cup {id}, !.status = 200]
       ELSE IF type = "customer.subscription.deleted"
         THEN [updateUserSubscription(account, FALSE, 0) EXCEPT
                 !.stale = {i \in DOMAIN account.sessions : account.sessions[i] = "paid"},
                 !.status = 200]
       ELSE [account EXCEPT !.status = 200]
  /\ UNCHANGED <<Others, tokens>>

\* POST /api/verify-checkout-session; sessionId 0: the field is missing
VerifyCheckoutSession(sessionId) ==
  /\ account.up
  /\ account' =
       IF ~account.stripe THEN [account EXCEPT !.status = 503]
       ELSE IF sessionId = 0 THEN [account EXCEPT !.status = 400]
       ELSE IF sessionId \notin DOMAIN account.sessions   \* retrieve rejects
         THEN [account EXCEPT !.status = 500]
       ELSE IF account.sessions[sessionId] = "paid"
         THEN [updateUserSubscription(account, TRUE, sessionId) EXCEPT !.status = 200]
       ELSE [account EXCEPT !.status = 200]
  /\ UNCHANGED <<Others, tokens>>

WebhookTypes == {"checkout.session.completed", "customer.subscription.deleted",
                 "payment_intent.succeeded"}

NextAccount ==
  \/ \E stripeKey \in BOOLEAN, webhookSecret \in BOOLEAN : ServerStarts(stripeKey, webhookSecret)
  \/ ServerStops
  \/ \E id \in 1..MaxSessions : CustomerPays(id)
  \/ \E emailPresent \in BOOLEAN, createOk \in BOOLEAN : GoogleCallback(emailPresent, createOk)
  \/ \E type \in WebhookTypes, id \in 1..MaxSessions, signatureOk \in BOOLEAN :
       StripeWebhook(type, id, signatureOk)
  \/ \E sessionId \in 0..(MaxSessions + 1) : VerifyCheckoutSession(sessionId)

(***************************************************************************)
(* Sample access tokens: the map, the clock, issue, validation and the     *)
(* cleanup timer.  Time is counted in units of SAMPLE_TOKEN_TTL.           *)
(***************************************************************************)
SAMPLE_TOKEN_TTL == 2
Forged == 0   \* a string that issueSampleAccessToken never returned

\* an expiry test that counts the instant of expiry as expired
ExpiredAtInstant(expiresAt, now) == expiresAt <= now

\* expiresAt < Date.now()
Expired(expiresAt, now) == expiresAt < now

\* Date.now() moves on
ClockTick ==
  /\ tokens.now < MaxTime
  /\ tokens' = [tokens EXCEPT !.now = tokens.now + 1]
  /\ UNCHANGED Requests

\* issueSampleAccessToken: a fresh random token, set to now + TTL
IssueSampleAccessToken(token) ==
  /\ token \in 1..MaxTokens
  /\ tokens.issued[token] = 0
  /\ \A t \in 1..(token - 1) : tokens.issued[t] # 0
  /\ tokens' = [tokens EXCEPT !.map[token] = tokens.now + SAMPLE_TOKEN_TTL,
                              !.issued[token] = tokens.now + SAMPLE_TOKEN_TTL]
  /\ UNCHANGED Requests

\* sampleAccessTokens.get(token): undefined (0) for a string not in the map
Get(map, token) == IF token \in DOMAIN map THEN map[token] ELSE 0

\* validateSampleAccessToken(token).  A caller presents a token it was given
\* or a string of its own: randomBytes(32) is not guessed before it is drawn.
ValidateSampleAccessToken(token) ==
  LET expiresAt == Get(tokens.map, token)
      refused == expiresAt = 0 \/ Expired(expiresAt, tokens.now)
  IN  /\ token \in {Forged} \cup {t \in 1..MaxTokens : tokens.issued[t] # 0}
      /\ tokens' = [tokens EXCEPT
                      !.map = IF refused /\ token \in DOMAIN tokens.map
                                THEN [tokens.map EXCEPT ![token] = 0] ELSE tokens.map,
                      !.rejected = IF refused THEN tokens.rejected \cup {token}
                                   ELSE tokens.rejected,
                      !.last = [token |-> token, at |-> tokens.now, accepted |-> ~refused]]
      /\ UNCHANGED Requests

\* sampleTokenCleanupTimer: delete every entry with expiresAt < now
SampleTokenCleanup ==
  LET gone == {t \in DOMAIN tokens.map :
                 tokens.map[t] # 0 /\ Expired(tokens.map[t], tokens.now)}
  IN  /\ tokens' = [tokens EXCEPT
                      !.map = [t \in DOMAIN tokens.map |->
                                 IF t \in gone THEN 0 ELSE tokens.map[t]],
                      !.swept = gone, !.sweptAt = tokens.now]
      /\ UNCHANGED Requests

NextTokens ==
  \/ ClockTick
  \/ \E token \in 1..MaxTokens : IssueSampleAccessToken(token)
  \/ \E token \in {Forged} \cup (1..MaxTokens) : ValidateSampleAccessToken(token)
  \/ SampleTokenCleanup

(***************************************************************************)
(* The server handlers.                                                    *)
(***************************************************************************)
ApplyOutcome(o, results) ==
  /\ pc' = IF o.cmd.kind = "tempo"
             THEN (IF o.cmd.dir = "slow" THEN "tempo_slow" ELSE "tempo_fast")
             ELSE o.pc
  /\ tmp' = o.tmp
  /\ written' = o.written
  /\ res' = o.res
  /\ probes' = o.probes
  /\ stages' = o.stages
  /\ cmd' = IF o.cmd.kind = "tempo" THEN NoCmd ELSE o.cmd
  /\ tempo' = IF o.cmd.kind = "tempo"
                THEN [remainingSpeed |-> req.args.speed, filters |-> << >>]
                ELSE tempo
  /\ probed' = IF o.probes > 0 THEN results ELSE << >>
  /\ UNCHANGED <<req, client, engine, caller, oversize, closed, unlinkFailed, sample, chat, account,
                 tokens>>

ProcessVideoBuffered ==
  /\ pc = "received"
  /\ req.ep = "buffered"
  /\ \E metadata \in ProbeResults :
       ApplyOutcome(IF oversize THEN MiddlewareError
                    ELSE BufferedPath(req, ~metadata.err, checkHasAudioStream(metadata)),
                    << metadata >>)

ProcessVideoMultipart ==
  /\ pc = "received"
  /\ req.ep = "process"
  /\ req.multipart
  /\ \E metadata \in ProbeResults :
       ApplyOutcome(MultipartPath(req, oversize, checkHasAudioStream(metadata)), << metadata >>)

ProcessVideoStreaming ==
  /\ pc = "received"
  /\ req.ep = "process"
  /\ ~req.multipart
  /\ \E metadata \in ProbeResults :
       ApplyOutcome(StreamingPath(req, ~metadata.err), << metadata >>)

TransitionVideos ==
  /\ pc = "received"
  /\ req.ep = "transition"
  /\ \E results \in [1..req.nfiles -> ProbeResults] :
       ApplyOutcome(IF oversize THEN MiddlewareError
                    ELSE TransitionPath(req, [i \in 1..req.nfiles |->
                                                checkHasAudioStream(results[i])]),
                    results)

GenerateCaptions ==
  /\ pc = "received"
  /\ req.ep = "captions"
  /\ ApplyOutcome(CaptionsPath(req), << >>)

\* /api/chat: validate the body, forward it to the model API and stream the
\* answer back; upstream is what the model API does with the request
ChatPath(r, upstream) ==
  IF r.argsState = "bad" THEN Answer(<< "validate" >>, 400, "json")
  ELSE IF upstream = "refused" THEN Answer(<< "validate", "dispatch" >>, 503, "json")
  ELSE IF upstream = "unreachable" THEN Answer(<< "validate", "dispatch" >>, 500, "json")
  ELSE Answer(<< "validate", "dispatch" >>, 200, "stream")

Chat(upstream) ==
  /\ pc = "received"
  /\ req.ep = "chat"
  /\ ApplyOutcome(ChatPath(req, upstream), << >>)

\* while (remainingSpeed < 0.5) { filters.push('atempo=0.5'); remainingSpeed *= 2; }
TempoSlowStep ==
  /\ pc = "tempo_slow"
  /\ RLt(tempo.remainingSpeed, Half)
  /\ Len(tempo.filters) < MaxTempoIter
  /\ tempo' = [remainingSpeed |-> RMul(tempo.remainingSpeed, Two),
               filters |-> Append(tempo.filters, Half)]
  /\ UNCHANGED <<pc, req, client, tmp, written, res, engine, probes, stages, cmd, probed,
                 caller, oversize, closed, unlinkFailed, sample, chat, account,
                 tokens>>

\* while (remainingSpeed > 2.0) { filters.push('atempo=2.0'); remainingSpeed /= 2; }
TempoFastStep ==
  /\ pc = "tempo_fast"
  /\ RLt(Two, tempo.remainingSpeed)
  /\ Len(tempo.filters) < MaxTempoIter
  /\ tempo' = [remainingSpeed |-> RMul(tempo.remainingSpeed, Half),
               filters |-> Append(tempo.filters, Two)]
  /\ UNCHANGED <<pc, req, client, tmp, written, res, engine, probes, stages, cmd, probed,
                 caller, oversize, closed, unlinkFailed, sample, chat, account,
                 tokens>>

\* the loop ends: push what remains and build the command
TempoExit ==
  /\ \/ pc = "tempo_slow" /\ ~RLt(tempo.remainingSpeed, Half)
     \/ pc = "tempo_fast" /\ ~RLt(Two, tempo.remainingSpeed)
  /\ cmd' = SpeedCommand(req.args.speed, TempoTail(tempo.remainingSpeed, tempo.filters))
  /\ stages' = Append(stages, "build")
  /\ pc' = "built"
  /\ UNCHANGED <<req, client, tmp, written, res, engine, probes, tempo, probed, caller,
                 oversize, closed, unlinkFailed, sample, chat, account, tokens>>

\* .pipe(res) of the streaming and multipart paths, .run() of the others
Piped == req.ep = "process"

\* the formats given with toFormat while the command was built
FormatsOf(c) == IF c.filter.f = "convert" THEN c.filter.toFormat ELSE << >>

\* let outputExt = 'mp4'; for a conversion: parsedArgs.format || 'mp4'
outputExt(op, args) ==
  IF op \in conversionOps THEN StrOrDefault(args, "format", "mp4") ELSE "mp4"

AUDIO_CONTENT_TYPES ==
  [mp3 |-> "audio/mpeg", wav |-> "audio/wav", aac |-> "audio/aac", ogg |-> "audio/ogg",
   flac |-> "audio/flac", m4a |-> "audio/mp4", wma |-> "audio/x-ms-wma"]

VIDEO_CONTENT_TYPES ==
  [mp4 |-> "video/mp4", webm |-> "video/webm", mov |-> "video/quicktime",
   avi |-> "video/x-msvideo", mkv |-> "video/x-matroska", flv |-> "video/x-flv",
   ogv |-> "video/ogg"]

\* table[key] || dflt
Lookup(table, key, dflt) == IF key \in DOMAIN table THEN table[key] ELSE dflt

responseContentType(op, ext) ==
  IF op \in audioOnlyOps THEN Lookup(AUDIO_CONTENT_TYPES, ext, "application/octet-stream")
  ELSE IF op = "convert_video_format" THEN Lookup(VIDEO_CONTENT_TYPES, ext, "video/mp4")
  ELSE "video/mp4"

\* what is set last before the command starts: the streaming path sets the
\* Content-Type, adds the movflags for mp4 and calls .toFormat(outputExt); the
\* multipart paths set video/mp4 and .toFormat('mp4'); the others run as built
Started(r, c) ==
  IF r.ep = "process" /\ ~r.multipart
    THEN [kind |-> "command", filter |-> c.filter,
          movflags |-> (outputExt(r.op, r.args) = "mp4"),
          toFormat |-> Append(FormatsOf(c), Val(outputExt(r.op, r.args)))]
  ELSE IF r.ep = "process"
    THEN [kind |-> "command", filter |-> c.filter, movflags |-> TRUE,
          toFormat |-> << Val("mp4") >>]
  ELSE c

\* .pipe(res) of the streaming and multipart paths, .run() of the others
StartEngine ==
  /\ pc = "built"
  /\ pc' = "running"
  /\ engine' = "running"
  /\ stages' = Append(stages, "execute")
  /\ cmd' = Started(req, cmd)
  /\ res' = IF ~Piped THEN res
            ELSE IF req.multipart THEN Typed(res, "video/mp4")
            ELSE Typed(res, responseContentType(req.op, outputExt(req.op, req.args)))
  /\ UNCHANGED <<req, client, tmp, written, probes, tempo, probed, caller, oversize,
                 closed, unlinkFailed, sample, chat, account, tokens>>

\* the engine writes output bytes into the piped response: headers go out with 200
EngineData ==
  /\ pc = "running"
  /\ Piped
  /\ ~res.headersSent
  /\ res' = Typed(Response(200, "partial"), res.contentType)
  /\ UNCHANGED <<pc, req, client, tmp, written, engine, probes, stages, cmd, tempo, probed,
                 caller, oversize, closed, unlinkFailed, sample, chat, account,
                 tokens>>

\* UnlinkedOnError that forgets the secondary inputs
UnlinkedOnErrorInputOnly(r, files) == files \cap {InputFile}

\* the temp files the 'error' handler of a piped command, or the catch block
\* of the other handlers, unlinks
UnlinkedOnError(r, files) ==
  IF r.ep = "process" /\ r.multipart /\ r.op = "add_audio_track"
    THEN files \cap {InputFile, AudioFile}
  ELSE IF r.ep = "process" /\ r.multipart
    THEN files \cap {InputFile, SubtitleFile, TranslatedFile}
  ELSE files

\* the answer once the engine has ended: the piped handlers ignore a rejected
\* unlink (.catch(() => {})), the others await it inside the try block
SuccessResponse(r, unlinkRejected) ==
  IF r.ep = "process"
    THEN Typed(Response(200, "complete"),
               IF r.multipart THEN "video/mp4"
               ELSE responseContentType(r.op, outputExt(r.op, r.args)))
  ELSE IF unlinkRejected THEN Response(500, "json")
  ELSE IF r.ep = "buffered"
    THEN Typed(Response(200, "complete"), responseContentType(r.op, outputExt(r.op, r.args)))
  ELSE Typed(Response(200, "complete"), "video/mp4")

\* the client goes away while the response is being streamed
ClientDisconnect ==
  /\ pc = "running"
  /\ Piped
  /\ ~closed
  /\ closed' = TRUE
  /\ UNCHANGED <<pc, req, client, tmp, written, res, engine, probes, stages, cmd, tempo,
                 probed, caller, oversize, unlinkFailed, sample, chat, account,
                 tokens>>

\* .pipe(res): when the output stream closes the command kills the FFmpeg
\* process and emits 'error' (Output stream closed), so the 'error' handler runs
OutputStreamClosed ==
  /\ pc = "running"
  /\ Piped
  /\ closed
  /\ engine' = "killed"
  /\ pc' = "done"
  /\ tmp' = tmp \ UnlinkedOnError(req, tmp)
  /\ res' = IF res.headersSent THEN res ELSE Typed(Response(500, "empty"), res.contentType)
  /\ UNCHANGED <<req, client, written, probes, stages, cmd, tempo, probed, caller, oversize,
                 closed, unlinkFailed, sample, chat, account, tokens>>

\* 'end': the engine exited with 0
EngineEnd ==
  /\ pc = "running"
  /\ engine' = "ended"
  /\ pc' = "done"
  /\ written' = IF Piped THEN written
                ELSE IF req.ep = "captions" THEN written \cup {AudioFile}
                ELSE written \cup {OutputFile}
  /\ \E left \in {{}} \cup {{file} : file \in tmp \cup (written' \ written)} :
       \* left: the file whose fs.unlink is rejected, if any
       /\ tmp' = left
       /\ unlinkFailed' = (left # {})
       /\ IF req.ep = "captions"
            \* the transcription request to the xAI API answers or fails
            THEN \E xaiOk \in BOOLEAN :
                   res' = IF xaiOk THEN Response(200, "json") ELSE Response(500, "json")
            ELSE res' = SuccessResponse(req, left # {})
  /\ UNCHANGED <<req, client, probes, stages, cmd, tempo, probed, caller, oversize, closed, sample,
                 chat, account, tokens>>

\* 'error': the engine exited with a failure
EngineError ==
  /\ pc = "running"
  /\ engine' = "failed"
  /\ pc' = "done"
  /\ tmp' = tmp \ UnlinkedOnError(req, tmp)
  /\ IF Piped
       THEN /\ res' = IF res.headersSent THEN res
                       ELSE Typed(Response(500, "empty"), res.contentType)
            /\ written' = written
       ELSE /\ res' = Response(500, "json")
            /\ \E partial \in BOOLEAN :
                 written' = IF ~partial THEN written
                            ELSE IF req.ep = "captions" THEN written \cup {AudioFile}
                            ELSE written \cup {OutputFile}
  /\ UNCHANGED <<req, client, probes, stages, cmd, tempo, probed, caller, oversize, closed,
                 unlinkFailed, sample, chat, account, tokens>>

\* a direct call of one of the three filter-graph builders
BuilderNames == {"buildCrossfadeFilter", "buildWipeFilter", "buildFadeFilter"}

CallOf(builder, numVideos, duration, hasAudio) ==
  CASE builder = "buildCrossfadeFilter" -> buildCrossfadeFilter(numVideos, duration, hasAudio, "fade")
    [] builder = "buildWipeFilter" -> buildWipeFilter(numVideos, duration, "wipeleft", hasAudio)
    [] OTHER -> buildFadeFilter(numVideos, duration, hasAudio)

CallBuilder(builder, numVideos, hasAudio) ==
  /\ pc = "idle"
  /\ pc' = "done"
  /\ cmd' = [kind |-> "graph", builder |-> builder, numVideos |-> numVideos,
             hasAudio |-> hasAudio, graph |-> CallOf(builder, numVideos, 1, hasAudio)]
  /\ UNCHANGED <<req, client, tmp, written, res, engine, probes, stages, tempo, probed, caller,
                 oversize, closed, unlinkFailed, sample, chat, account, tokens>>

Next ==
  \/ /\ pc = "idle"
     /\ \E r \in HttpRequests, c \in Callers, big \in BOOLEAN : HttpRequest(r, c, big)
  \/ /\ pc = "idle"
     /\ \E tool \in ClientTools, uploadedVideos \in 0..MaxVideos, argVideos \in 0..MaxVideos :
          /\ tool # "add_video_transition" => uploadedVideos = 0 /\ argVideos = 0
          /\ \E args \in ToolArgs(tool), c \in ClientCallers(videoProcessLimiterMax),
                sm \in SampleStates :
               ClientToolCall(tool, args, uploadedVideos, argVideos, c, sm)
  \/ /\ pc = "idle"
     /\ \E c \in ClientCallers(apiLimiterMax), sm \in SampleStates, messages \in {"ok", "bad"} :
          CallAPI(c, sm, messages)
  \/ /\ pc = "idle"
     /\ \E builder \in BuilderNames, numVideos \in 0..MaxVideos :
          \E hasAudio \in [1..numVideos -> BOOLEAN] : CallBuilder(builder, numVideos, hasAudio)
  \/ /\ pc = "idle"
     /\ \E funcName \in tools : DispatchToolCall(funcName)
  \/ RateLimit
  \/ RequireAuthenticatedUser
  \/ RequireActiveSubscription
  \/ SampleTokenExpires
  \/ ProcessVideoBuffered
  \/ ProcessVideoMultipart
  \/ ProcessVideoStreaming
  \/ TransitionVideos
  \/ GenerateCaptions
  \/ \E upstream \in {"ok", "refused", "unreachable"} : Chat(upstream)
  \/ TempoSlowStep
  \/ TempoFastStep
  \/ TempoExit
  \/ StartEngine
  \/ EngineData
  \/ EngineEnd
  \/ EngineError
  \/ ClientDisconnect
  \/ OutputStreamClosed

Spec == Init /\ [][Next]_vars

\* the kill that pipe() schedules on a closed output stream does happen
SpecFair == Spec /\ WF_vars(OutputStreamClosed)

\* the handler runs on: a loop iteration or the loop's exit that can be taken
\* is taken
SpecTempoFair ==
  Spec /\ WF_vars(TempoSlowStep) /\ WF_vars(TempoFastStep) /\ WF_vars(TempoExit)

\* the sample access tokens on their own
SpecTokens == Init /\ [][NextTokens]_vars

\* sign-in and billing on their own
SpecAccount == Init /\ [][NextAccount]_vars

\* the chat loop of the client on its own
SpecChain == Init /\ [][NextChain]_vars

(***************************************************************************)
(* Properties.                                                             *)
(***************************************************************************)
Answered == pc = "done" /\ res.status # 0
ClientError == res.status >= 400 /\ res.status <= 499

\* C1: every temp file a handler wrote under /tmp is deleted by the time the
\* request is finished, on the success path and on every failure path.
C1_TempFilesDeleted == pc = "done" => tmp = {}

\* C2: a request naming an unregistered operation is answered with a client
\* error (4xx); no temp file is created and no engine process is started.
C2_UnknownOperationRejected ==
  (pc = "done" /\ req.op = "teleport_video")
    => (ClientError /\ written = {} /\ engine = "none" /\ probes = 0)

\* the contracts of section 4.1 that C3 names
ContractHolds(op, args) ==
  CASE op = "resize_video" ->
         Has(args, "width") /\ Has(args, "height") /\ args.width > 0 /\ args.height > 0
    [] op = "adjust_volume" -> Has(args, "volume") /\ args.volume >= 0
    [] op = "audio_fade" ->
         /\ Has(args, "type") /\ args.type \in {"in", "out"}
         /\ Has(args, "duration") /\ args.duration > 0
    [] op = "audio_pan" ->
         Has(args, "pan") /\ RLe(Rat(-1, 1), args.pan) /\ RLe(args.pan, One)
    [] OTHER -> TRUE

\* C3: arguments that violate the operation's contract are rejected before
\* any FFmpeg process is started: no request reaches the engine unvalidated.
C3_ValidatedBeforeEngine == engine # "none" => ContractHolds(req.op, req.args)

\* validation, then probing (with the staging for it), then building, then execution
Rank(stage) ==
  CASE stage = "validate" -> 1
    [] stage = "stage" -> 2
    [] stage = "probe" -> 2
    [] stage = "build" -> 3
    [] stage = "execute" -> 4
    [] OTHER -> 0

\* C4: within one request the stages run in the strict order validation,
\* probing, graph building, execution: nothing is probed or staged for probing
\* before all arguments are validated, nothing is built before probing is over.
C4_StrictPipelineOrder ==
  \A i, j \in DOMAIN stages :
    (i < j /\ Rank(stages[i]) # 0 /\ Rank(stages[j]) # 0) => Rank(stages[i]) <= Rank(stages[j])

\* C5: if the engine fails the caller receives an error response, never a
\* success status carrying partial or corrupt output.
C5_EngineFailureIsError == engine = "failed" => res.status >= 400

SilentCount(g, i) ==
  Cardinality({k \in DOMAIN g : g[k].f = "anullsrc" /\ g[k].out = Pad("silent", i)})
SilentTotal(g) == Cardinality({k \in DOMAIN g : g[k].f = "anullsrc"})
HasAudioLabel(g) == \E k \in DOMAIN g : g[k].out = Pad("A", 0)

SilentRule(g, hasAudio) ==
  IF some(hasAudio)
    THEN /\ \A j \in DOMAIN hasAudio : SilentCount(g, j - 1) = IF hasAudio[j] THEN 0 ELSE 1
         /\ SilentTotal(g) = Cardinality({j \in DOMAIN hasAudio : ~hasAudio[j]})
         /\ HasAudioLabel(g)
    ELSE SilentTotal(g) = 0 /\ ~HasAudioLabel(g)

\* C6: for each transition builder and every hasAudio vector of length n >= 2:
\* if some entry is true the graph has exactly one silent pad for each index
\* whose entry is false, none for the others, and an audio output label; if no
\* entry is true it has no silent pad and no audio label and the job maps video only.
C6_SilentAudioSynthesis ==
  /\ (cmd.kind = "graph" /\ cmd.numVideos >= 2)
       => SilentRule(cmd.graph.filters, cmd.hasAudio)
  /\ (cmd.kind = "command" /\ cmd.filter.f = "transition")
       => /\ SilentRule(cmd.filter.graph, cmd.filter.hasAudio)
          /\ cmd.filter.maps = IF some(cmd.filter.hasAudio) THEN << "v", "a" >> ELSE << "v" >>

C6_Witness ==
  /\ cmd.kind = "graph"
  /\ cmd.builder = "buildFadeFilter"
  /\ cmd.hasAudio = << TRUE, FALSE, TRUE >>
  /\ SilentCount(cmd.graph.filters, 1) = 1
  /\ HasAudioLabel(cmd.graph.filters)

\* C7: with fewer than 2 clips every transition fails and no FFmpeg command is
\* run: the handler rejects before staging any file, each builder throws for
\* numVideos < 2, and the client tool fails without calling the server.
C7_FewerThanTwoClips ==
  /\ (req.ep = "transition" /\ req.nfiles < 2)
       => /\ written = {} /\ engine = "none" /\ probes = 0 /\ cmd = NoCmd
          /\ pc \in {"arrived", "limited", "authenticated", "received", "done"}
          /\ pc = "done" => res.status >= 400
          /\ (pc = "done" /\ ~oversize) => ClientError
  /\ (cmd.kind = "graph" /\ cmd.numVideos < 2) => cmd.graph.error
  /\ (client.tool = "add_video_transition" /\ client.uploadedVideos < 2 /\ client.argVideos < 2)
       => client.result = "failed" /\ ~client.called /\ pc = "done" /\ req = NoReq

C7_Witness ==
  /\ pc = "done"
  /\ req.ep = "transition"
  /\ req.nfiles = 1
  /\ Has(req.args, "transition")
  /\ res.status = 400

\* C8: for every positive speed factor f the audio tempo chain consists of
\* stages in [0.5, 2.0] whose product is f; a factor in [0.5, 2.0] gives one
\* stage, speed 4 gives two 2.0 stages, and the video filter divides the
\* presentation timestamps by f.
C8_TempoChain ==
  (cmd.kind = "command" /\ cmd.filter.f = "speed" /\ RLt(Zero, req.args.speed))
    => LET f == req.args.speed
           chain == cmd.filter.atempo
       IN  /\ \A k \in DOMAIN chain : RLe(Half, chain[k]) /\ RLe(chain[k], Two)
           /\ RProd(chain) = f
           /\ (RLe(Half, f) /\ RLe(f, Two)) => Len(chain) = 1
           /\ f = Rat(4, 1) => chain = << Two, Two >>
           /\ cmd.filter.setptsDivisor = f

C8_Witness ==
  /\ cmd.kind = "command"
  /\ cmd.filter.f = "speed"
  /\ req.args.speed = Rat(4, 1)
  /\ cmd.filter.atempo = << Two, Two >>

\* C9: for every pan value p in [-1, 1] audio_pan uses left 1 and right 1+p
\* when p < 0, left 1-p and right 1 when p > 0, and 1 on both when p = 0; so
\* p = -1 gives (1, 0), p = 1 gives (0, 1), and both gains lie in [0, 1].
C9_PanGains ==
  (cmd.kind = "command" /\ cmd.filter.f = "pan"
     /\ RLe(Rat(-1, 1), req.args.pan) /\ RLe(req.args.pan, One))
    => LET p == req.args.pan
           g == cmd.filter.gains
       IN  /\ RLt(p, Zero) => (g.left = One /\ g.right = RAdd(One, p))
           /\ RLt(Zero, p) => (g.left = RSub(One, p) /\ g.right = One)
           /\ p = Zero => (g.left = One /\ g.right = One)
           /\ p = Rat(-1, 1) => (g.left = One /\ g.right = Zero)
           /\ p = One => (g.left = Zero /\ g.right = One)
           /\ RLe(Zero, g.left) /\ RLe(g.left, One)
           /\ RLe(Zero, g.right) /\ RLe(g.right, One)

C9_Witness ==
  /\ cmd.kind = "command"
  /\ cmd.filter.f = "pan"
  /\ req.args.pan = Rat(-1, 1)
  /\ cmd.filter.gains = [left |-> One, right |-> Zero]

\* a numeric field f given as exactly 0
IsZero(args, f) == Has(args, f) /\ args[f] = 0

\* C10: a numeric argument supplied as exactly 0 is treated as a supplied
\* value: it is neither rejected as missing nor replaced by a default, on the
\* client and on the server.
C10_ZeroIsSupplied ==
  /\ (cmd.kind = "command" /\ cmd.filter.f = "drawtext")
       => /\ IsZero(req.args, "x") => cmd.filter.x = 0
          /\ IsZero(req.args, "y") => cmd.filter.y = 0
  /\ (cmd.kind = "command" /\ cmd.filter.f = "trim" /\ IsZero(req.args, "start"))
       => cmd.filter.start = Val(0)
  /\ (cmd.kind = "command" /\ cmd.filter.f = "crop")
       => /\ IsZero(req.args, "x") => cmd.filter.x = Val(0)
          /\ IsZero(req.args, "y") => cmd.filter.y = Val(0)
  /\ (client.tool = "trim_video" /\ IsZero(client.args, "start") /\ Has(client.args, "end"))
       => client.called
  /\ (client.tool = "crop_video" /\ Has(client.args, "x") /\ client.args.x >= 0
        /\ IsZero(client.args, "y"))
       => client.called
  /\ (client.tool = "add_text" /\ Has(client.args, "text") /\ client.args.text # ""
        /\ IsZero(client.args, "x"))
       => client.called

\* the fixed supported list of a conversion operation, with the default that
\* applies when the format is omitted
FormatSupported(op, args) ==
  CASE op = "convert_video_format" ->
         /\ StrOrDefault(args, "format", "") \in supportedVideoFormats
         /\ StrOrDefault(args, "codec", "auto") \in supportedVideoCodecs
    [] op = "convert_audio_format" -> StrOrDefault(args, "format", "") \in supportedAudioFormats
    [] op = "extract_audio" -> StrOrDefault(args, "format", "mp3") \in supportedExtractFormats
    [] OTHER -> TRUE

\* C11: for convert_video_format, convert_audio_format and extract_audio a
\* format (or codec) outside the operation's fixed supported list is rejected
\* with a client error and is never passed to the engine.
C11_FormatEnumEnforced ==
  (req.op \in conversionOps /\ req.hasFile /\ req.argsState = "ok"
     /\ ~FormatSupported(req.op, req.args))
    => /\ engine = "none"
       /\ cmd = NoCmd
       /\ pc = "done" => ClientError

\* C12: when the probe of an input fails, checkHasAudioStream reports "no
\* audio" and the request goes on (transitions and audio overlay); when the
\* probe of a get_video_info request fails, the request fails and the error is
\* returned to the caller.
C12_ProbeFailure ==
  /\ (req.ep = "transition" /\ probed # << >>)
       => /\ cmd.kind = "command"
             => \A i \in DOMAIN probed : probed[i].err => ~cmd.filter.hasAudio[i]
          /\ (\A i \in DOMAIN probed : probed[i].err)
               => (cmd.kind = "command" => cmd.filter.maps = << "v" >>)
          /\ (pc = "done" /\ engine = "none")
               => TransitionFilter(req.args.transition, req.nfiles, 1, << >>).error
  /\ (req.op = "add_audio_track" /\ probed # << >> /\ probed[1].err)
       => /\ cmd.kind = "command" => cmd.filter.maps = << "0:v:0", "newaudio" >>
          /\ (pc = "done" /\ engine = "none")
               => ~ModeValid(ModeOf(req.args)) \/ ~VolumeValid(VolumeOf(req.args))
  /\ (req.op = "get_video_info" /\ probed # << >> /\ probed[1].err)
       => pc = "done" /\ res.status >= 400 /\ res.body = "json" /\ engine = "none"

C12_Witness ==
  /\ req.op = "add_audio_track"
  /\ ModeOf(req.args) = "mix"
  /\ probed = << [err |-> TRUE, streams |-> {}] >>
  /\ engine = "ended"
  /\ res.status = 200

\* the caller carries a valid sample access token or has an authenticated
\* session whose user has an active subscription
Authorized(c) == c.token = "valid" \/ c.session = "subscriber"

\* C13: a request reaches the handler of a media endpoint, and so its
\* operation dispatch, only after the rate limiter counted it within the limit
\* and only if it is authorized; an unauthorized or over-limit request stages
\* nothing, builds nothing and starts no engine.
C13_GateBeforeDispatch ==
  /\ (stages # << >> /\ req.ep # "chat")
       => /\ caller.windowHits >= 1 /\ caller.windowHits <= videoProcessLimiterMax
          /\ Authorized(caller)
  /\ (req # NoReq /\ req.ep # "chat"
        /\ (~Authorized(caller) \/ caller.windowHits > videoProcessLimiterMax))
       => /\ stages = << >> /\ written = {} /\ probes = 0 /\ engine = "none" /\ cmd = NoCmd
          /\ pc = "done" => res.status \in {401, 403, 429}

C13_Witness ==
  /\ req.ep = "captions"
  /\ caller.token = "expired"
  /\ caller.session = "subscriber"
  /\ caller.windowHits = videoProcessLimiterMax
  /\ engine = "ended"

\* C14: an input larger than the 100MB ceiling is rejected before any
\* processing begins, on every media endpoint, in the multipart mode and in
\* the raw-body streaming mode: no temp file is written, no engine is started.
C14_SizeCeiling ==
  oversize => /\ written = {}
              /\ engine = "none"
              /\ pc = "done" => res.status >= 400

C16_CleanupFailureHidden ==
  (engine = "ended" /\ unlinkFailed /\ req.ep # "captions") => res.status = 200

\* C17: every tool name of the LLM tool schema has an entry in the client
\* dispatch table toolFunctions, so a tool call with a schema-defined name is
\* dispatched to a function.
C17_SchemaNamesDispatch ==
  (client.tool \in tools /\ pc = "done") => client.result # "TypeError"

\* the container formats a Content-Type value stands for in the two tables
ContainersOf(contentType) ==
  {ext \in DOMAIN AUDIO_CONTENT_TYPES : AUDIO_CONTENT_TYPES[ext] = contentType}
  \cup {ext \in DOMAIN VIDEO_CONTENT_TYPES : VIDEO_CONTENT_TYPES[ext] = contentType}

\* the format the engine is told to produce: the last -f of the command
ToldFormat(c) == c.toFormat[Len(c.toFormat)]

\* C18: for every streaming operation the response Content-Type is fixed
\* before the first body byte is written and names the container format the
\* engine is told to produce, also when the format argument is omitted and
\* the operation's default applies.
C18_ContentTypeMatchesFormat ==
  (req.ep = "process" /\ ~req.multipart /\ engine # "none" /\ cmd.kind = "command")
    => /\ res.contentType # ""
       /\ ToldFormat(cmd) \in {Val(ext) : ext \in ContainersOf(res.contentType)}

\* the transition types the endpoint documents and its switch handles
supportedTransitions ==
  {"crossfade", "fade", "dissolve", "wipe_left", "wipe_right", "wipe_up", "wipe_down",
   "slide_left", "slide_right", "slide_up", "slide_down"}

\* C19: a request to /api/transition-videos whose transition type is not one
\* of the eleven supported types is answered with a client error (4xx), not
\* with a server error.
C19_UnknownTransitionIsClientError ==
  (req.ep = "transition" /\ ~oversize /\ Has(req.args, "transition")
     /\ req.args.transition \notin supportedTransitions /\ pc = "done")
    => ClientError

\* a /api/process-video request whose arguments are unparseable, absent where
\* the operation reads them, or lack a field the operation requires
ArgsMalformed(r) ==
  /\ r.ep = "process"
  /\ r.op # ""
  /\ \/ r.argsState = "bad"
     \/ r.multipart /\ r.argsState = "absent" /\ r.op \in SecondaryOps
     \/ r.op = "add_text" /\ r.argsState = "ok" /\ ~Has(r.args, "text")
     \/ r.op = "add_audio_track" /\ r.argsState = "ok" /\ ~Has(r.args, "audioFile")

\* C20: a /api/process-video request with missing or malformed arguments
\* that reaches the handler (stages is non-empty from its first check on) is
\* answered with a structured client error: the handler never throws out of
\* the request leaving it unanswered, and never answers it with a server
\* error.
C20_MalformedArgsAnswered ==
  (ArgsMalformed(req) /\ ~oversize /\ stages # << >>)
    => /\ pc # "crashed"
       /\ pc = "done" => (ClientError /\ res.body = "json")

\* durations, in seconds, of the uploaded video (and of its own audio track)
\* and of the audio tracks the audioFile values of AudioTrackArgs stand for
VideoDuration == 2
TrackDuration(audioFile) == IF audioFile = "bG9uZ2Vy" THEN 3 ELSE 1
Shorter(a, b) == IF a < b THEN a ELSE b

\* the duration of the file ffmpeg writes for an add_audio_track command: the
\* mapped audio stream lasts as long as [0:a] under amix duration=first and
\* as long as the new track otherwise, and -shortest ends the output with
\* the shorter of the mapped video and audio streams
OutputDuration(filter, audioFile) ==
  LET audio == IF filter.amixDuration = "first" THEN VideoDuration
               ELSE TrackDuration(audioFile)
  IN  IF filter.shortest THEN Shorter(VideoDuration, audio) ELSE VideoDuration

\* the pads the filters of a graph consume
Consumed(graph) == UNION {{graph[i].ins[j] : j \in DOMAIN graph[i].ins} : i \in DOMAIN graph}

\* C21 without the duration bound: only replace and mix reach the engine;
\* replace maps the new track alone and never reads [0:a]; mix, for a source
\* probed as having audio, maps the amix of [0:a] and the new track, the new
\* track carrying the caller's volume.
C21_ModesAndMaps ==
  /\ (req.op = "add_audio_track" /\ engine # "none") => ModeValid(ModeOf(req.args))
  /\ (cmd.kind = "command" /\ cmd.filter.f = "add_audio_track")
       => LET graph == cmd.filter.graph
          IN  /\ graph[1] = Filter(<< Pad("a", 1) >>, "volume", Pad("newaudio", 0))
              /\ cmd.filter.volume = VolumeOf(req.args)
              /\ ModeOf(req.args) = "replace"
                   => /\ cmd.filter.maps = << "0:v:0", "newaudio" >>
                      /\ Pad("a", 0) \notin Consumed(graph)
              /\ (ModeOf(req.args) = "mix" /\ checkHasAudioStream(probed[1]))
                   => /\ cmd.filter.maps = << "0:v:0", "mixedaudio" >>
                      /\ graph[2] = Filter(<< Pad("a", 0), Pad("newaudio", 0) >>, "amix",
                                           Pad("mixedaudio", 0))

\* C21: add_audio_track accepts exactly the modes replace and mix; replace
\* maps only the new track, mix blends the original and the new track with
\* the caller's gain on the new track, and in mix mode the output lasts no
\* longer than the shorter of the two inputs.
C21_AudioTrackModes ==
  /\ C21_ModesAndMaps
  /\ (cmd.kind = "command" /\ cmd.filter.f = "add_audio_track" /\ ModeOf(req.args) = "mix")
       => OutputDuration(cmd.filter, req.args.audioFile)
            <= Shorter(VideoDuration, TrackDuration(req.args.audioFile))

\* the style and position a burn_subtitles request asks for
StyleOf(args) == IF Has(args, "style") THEN args.style ELSE "default"
PositionOf(args) == IF Has(args, "position") THEN args.position ELSE "bottom"

\* the filter parameters the three presets stand for
PresetParams ==
  [default |-> "PrimaryColour=&H00FFFFFF,OutlineColour=&H00000000,Bold=0",
   white_on_black |->
     "PrimaryColour=&H00FFFFFF,OutlineColour=&H00000000,BackColour=&H80000000,BorderStyle=4,Outline=0,Shadow=0",
   yellow |-> "PrimaryColour=&H0000FFFF,OutlineColour=&H00000000,Bold=1"]

\* C22: burn_subtitles accepts only the styles default, white_on_black and
\* yellow and the positions top and bottom and rejects any other value before
\* a temp file is written; an accepted (style, position) pair fixes the
\* filter parameters of the primary track, whether or not a translation is
\* given; a translated track is placed at the opposite position with the
\* parameters of the same style.
C22_SubtitleStyles ==
  /\ (req.op = "burn_subtitles" /\ req.multipart /\ req.argsState = "ok" /\ ~oversize
        /\ stages # << >> /\ Has(req.args, "srtContent")
        /\ (StyleOf(req.args) \notin {"default", "white_on_black", "yellow"}
              \/ PositionOf(req.args) \notin {"top", "bottom"}))
       => /\ pc = "done" /\ res.status = 400
          /\ written = {} /\ engine = "none" /\ cmd = NoCmd
  /\ (cmd.kind = "command" /\ cmd.filter.f = "subtitles")
       => LET style == StyleOf(req.args)
              position == PositionOf(req.args)
              primary == cmd.filter.videoFilter[1].force_style
          IN  /\ style \in {"default", "white_on_black", "yellow"}
              /\ position \in {"top", "bottom"}
              /\ primary = [FontSize |-> 20,
                            Alignment |-> IF position = "top" THEN 8 ELSE 2,
                            params |-> PresetParams[style]]
              /\ Len(cmd.filter.videoFilter) = IF Has(req.args, "translatedSrtContent") THEN 2 ELSE 1
              /\ Len(cmd.filter.videoFilter) = 2
                   => LET translated == cmd.filter.videoFilter[2].force_style
                      IN  /\ translated.Alignment = IF position = "top" THEN 2 ELSE 8
                          /\ translated.Alignment # primary.Alignment
                          /\ translated.params = primary.params

C22_Witness ==
  /\ cmd.kind = "command"
  /\ cmd.filter.f = "subtitles"
  /\ StyleOf(req.args) = "white_on_black"
  /\ PositionOf(req.args) = "bottom"
  /\ Len(cmd.filter.videoFilter) = 2
  /\ cmd.filter.videoFilter[2].force_style.Alignment = 8
  /\ engine = "ended"

\* C23: a request the client sends in sample mode while it holds an unexpired
\* sample access token, to /api/chat, /api/process-video or
\* /api/transition-videos, carries the token in the header the server
\* validates and passes requireAuthenticatedUser and requireActiveSubscription
\* without a login session.
C23_SampleModeAdmitted ==
  (sample.enabled /\ sample.token = "valid" /\ req # NoReq /\ caller.token # "expired"
     /\ caller.session = "none")
    => /\ caller.token = "valid"
       /\ pc = "done" => (stages # << >> \/ res.status = 429)

\* the last successful tool call before call i, 0 if there is none
LastSuccessBefore(calls, i) ==
  LET S == {j \in 1..(i - 1) : calls[j].ok}
  IN  IF S = {} THEN 0 ELSE CHOOSE j \in S : \A k \in S : k <= j

\* C24: every tool call receives as its input the output of the most recent
\* successful tool call before it, whether that call was in the same answer
\* of the model, in an earlier round of the same callAPI chain or in an
\* earlier chain; with no such call it receives the uploaded video.
C24_OutputBecomesWorkingVideo ==
  \A i \in DOMAIN chat.calls :
    LET j == LastSuccessBefore(chat.calls, i)
    IN  chat.calls[i].input = IF j = 0 THEN 0 ELSE chat.calls[j].output

\* C25: after a successful Google OAuth callback a user whose
\* has_subscription is true is redirected to the app ('/') and a user whose
\* has_subscription is false is redirected to Stripe checkout.
C25_CallbackRedirect ==
  account.callback.valid
    => account.callback.redirect =
         IF account.callback.has_subscription THEN "/" ELSE "checkout"

\* C30: once customer.subscription.deleted has set has_subscription to
\* false, has_subscription is true again only through the report of a
\* checkout session that was not yet paid at the cancellation; reporting a
\* session paid before it does not restore the subscription.
C30_CancellationSticks ==
  account.has_subscription => account.lastGrant \notin account.stale

\* C26: for every speed value that reaches the speed_video case, 0 and
\* negative numbers included, the construction of the audio tempo chain
\* terminates: a request that has entered one of the two loops leaves it.
C26_TempoChainTerminates ==
  (pc \in {"tempo_slow", "tempo_fast"}) ~> (pc = "built")

\* the pads a graph over n inputs can read: [i:v] of every input, [i:a] of
\* the inputs that have audio, and the output label of each of its filters
Produced(graph) == {graph[k].out : k \in DOMAIN graph}
Existing(graph, n, hasAudio) ==
  {Pad("v", i) : i \in 0..(n - 1)}
  \cup {Pad("a", i) : i \in {j - 1 : j \in {k \in DOMAIN hasAudio : hasAudio[k]}}}
  \cup Produced(graph)

\* the filter output a -map label of the transition handler names
MapPad(label) == IF label = "v" THEN Pad("V", 0) ELSE Pad("A", 0)

\* C27: no filter graph consumes a pad that does not exist.  In the graphs of
\* the transition builders and of the handler every consumed pad is an input
\* video stream, the audio stream of an input with hasAudio[i] true, or a
\* label some filter of the graph produces (silent pads and fade labels
\* included), and -map names only labels the graph produces; the graph of
\* add_audio_track reads [0:a] only if the primary input was probed as
\* having audio, and maps a label it produces.
C27_NoDanglingPad ==
  /\ (cmd.kind = "graph" /\ ~cmd.graph.error)
       => Consumed(cmd.graph.filters)
            \subseteq Existing(cmd.graph.filters, cmd.numVideos, cmd.hasAudio)
  /\ (cmd.kind = "command" /\ cmd.filter.f = "transition")
       => /\ Consumed(cmd.filter.graph)
               \subseteq Existing(cmd.filter.graph, req.nfiles, cmd.filter.hasAudio)
          /\ \A k \in DOMAIN cmd.filter.hasAudio :
               cmd.filter.hasAudio[k] => checkHasAudioStream(probed[k])
          /\ \A m \in DOMAIN cmd.filter.maps :
               MapPad(cmd.filter.maps[m]) \in Produced(cmd.filter.graph)
  /\ (cmd.kind = "command" /\ cmd.filter.f = "add_audio_track")
       => /\ Consumed(cmd.filter.graph)
               \subseteq Existing(cmd.filter.graph, 1,
                                  << checkHasAudioStream(probed[1]), TRUE >>)
          /\ Pad(cmd.filter.maps[2], 0) \in Produced(cmd.filter.graph)

C27_Witness ==
  /\ cmd.kind = "command"
  /\ cmd.filter.f = "transition"
  /\ req.args.transition = "fade"
  /\ cmd.filter.hasAudio = << FALSE, TRUE, FALSE >>
  /\ Pad("silent", 2) \in Consumed(cmd.filter.graph)
  /\ Pad("a", 1) \in Consumed(cmd.filter.graph)
  /\ engine = "ended"

\* C28: a sample access token is accepted if and only if
\* issueSampleAccessToken issued it and it has not expired at the time of the
\* validation; a token that was rejected is never accepted afterwards; and
\* the cleanup removes no entry that is unexpired at the time it runs.
C28_TokenAcceptance ==
  /\ tokens.last.accepted
       <=> /\ tokens.last.token \in 1..MaxTokens
           /\ tokens.issued[tokens.last.token] # 0
           /\ tokens.issued[tokens.last.token] >= tokens.last.at
  /\ tokens.last.accepted => tokens.last.token \notin tokens.rejected
  /\ \A t \in tokens.swept : tokens.issued[t] # 0 /\ tokens.issued[t] < tokens.sweptAt
  /\ \A t \in 1..MaxTokens :
       (tokens.issued[t] # 0 /\ tokens.issued[t] >= tokens.now /\ t \notin tokens.rejected)
         => tokens.map[t] = tokens.issued[t]

\* a token accepted at the very instant of its expiry, after the cleanup
\* swept an older one that was then refused, and a forged one was refused
C28_Witness ==
  /\ tokens.last.accepted
  /\ tokens.last.token \in 1..MaxTokens
  /\ tokens.last.at = tokens.issued[tokens.last.token]
  /\ tokens.swept # {}
  /\ tokens.swept \subseteq tokens.rejected
  /\ Forged \in tokens.rejected

\* C29: a request that requireAuthenticatedUser admitted on the strength of
\* its sample access token (it carries no session) is admitted by
\* requireActiveSubscription as well: it is never answered 403.
C29_ChecksAgree ==
  (req # NoReq /\ caller.session = "none")
    => /\ pc = "authenticated" => requireActiveSubscription(caller) = "next"
       /\ pc = "done" => res.status # 403

====
